------------------------------ MODULE Messages ------------------------------
(***************************************************************************)
(* The structures that the program sends and reads as TLV8: pairing        *)
(* (pair-setup.go, pair-verify.go, pairings.go), Adaptive Lighting         *)
(* (adaptive/tlv.go) and RTP streams (rtp/), as structure types of Tlv8.   *)
(***************************************************************************)
EXTENDS Tlv8

byte(tag)   == Field(tag, "uint8")
bool(tag)   == Field(tag, "bool")
uint16(tag) == Field(tag, "uint16")
int32(tag)  == Field(tag, "int32")
uint32(tag) == Field(tag, "uint32")
uint64(tag) == Field(tag, "uint64")
float32(tag) == Field(tag, "float32")
bytes(tag)  == Field(tag, "bytes")   \* and strings

-----------------------------------------------------------------------------
(* Pairing *)

pairSetupPayload ==
    [i \in 1..14 |->
        Optional((<<byte(0), bytes(1), bytes(2), bytes(3), bytes(4), bytes(5), byte(6),
                    byte(7), byte(8), bytes(9), bytes(10), byte(11), bytes(13), bytes(14)>>)[i])]

pairSetupM2Payload == <<bytes(2), bytes(3), byte(6)>>
pairSetupM4Payload == <<bytes(4), byte(6)>>
pairSetupM6EncryptedPayload      == <<bytes(1), bytes(3), bytes(10)>>
pairSetupM6Payload == <<bytes(5), byte(6)>>

pairVerifyPayload ==
    [i \in 1..6 |->
        Optional((<<byte(0), bytes(1), bytes(3), bytes(5), byte(6), bytes(10)>>)[i])]

pairVerifyM1Tlv      == <<bytes(1), bytes(10)>>
pairVerifyM1Response == <<byte(6), bytes(3), bytes(5)>>

pairingsRequest ==
    <<byte(0), Optional(bytes(1)), Optional(bytes(3)), Optional(byte(11)), byte(6)>>

pairingPayload == <<bytes(1), bytes(3), byte(11)>>

tlv8Error == <<byte(6), byte(7)>>

-----------------------------------------------------------------------------
(* Adaptive Lighting *)

supportedConfig == <<List(1, <<uint64(1), byte(2)>>)>>

transitionParameters == <<bytes(1), bytes(2), Optional(bytes(3))>>

curveEntryTLV == <<float32(1), float32(2), uint32(3), Optional(uint32(4))>>

multiplierRange == <<uint32(1), uint32(2)>>

curveConfig == <<List(1, curveEntryTLV), uint64(2), Struct(3, multiplierRange)>>

valueTransitionConfig ==
    <<uint64(1), Struct(2, transitionParameters), Optional(byte(3)),
      Optional(Struct(5, curveConfig)), Optional(uint16(6)), Optional(uint32(8))>>

controlWrite ==
    <<Optional(Pointer(1, <<uint64(1)>>)),
      Optional(Pointer(2, <<Struct(1, valueTransitionConfig)>>))>>

statusResponse ==
    <<Struct(1, <<uint64(1), Struct(2, transitionParameters), uint64(3)>>)>>

readResponse ==
    <<Struct(1, <<uint64(1), Struct(2, transitionParameters), byte(3),
                  Struct(5, curveConfig), uint16(6), uint32(8)>>)>>

-----------------------------------------------------------------------------
(* RTP *)

AudioCodecParameters == <<byte(1), byte(2), byte(3)>>

AudioStreamConfiguration ==
    <<List(1, <<byte(1), Struct(2, AudioCodecParameters)>>), bool(2)>>

VideoCodecAttributes == <<uint16(1), uint16(2), byte(3)>>

VideoCodecParameters == <<Inline(<<byte(1)>>), Inline(<<byte(2)>>), Inline(<<byte(3)>>)>>

VideoStreamConfiguration ==
    <<List(1, <<byte(1), Struct(2, VideoCodecParameters), List(3, VideoCodecAttributes)>>)>>

Configuration == <<Inline(<<byte(2)>>)>>

Addr == <<byte(1), bytes(2), uint16(3), uint16(4)>>

CryptoSuite == <<byte(1), bytes(2), bytes(3)>>

SetupEndpoints ==
    <<bytes(1), Struct(3, Addr), Struct(4, CryptoSuite), Struct(5, CryptoSuite)>>

SetupEndpointsResponse ==
    <<bytes(1), byte(2), Struct(3, Addr), Struct(4, CryptoSuite), Struct(5, CryptoSuite),
      int32(6), int32(7)>>

RTPParams ==
    <<byte(1), uint32(2), uint16(3), float32(4), Optional(byte(5)), Optional(uint16(6))>>

\* VideoParameters has one set of attributes, in a structure.
StreamConfiguration ==
    <<Struct(1, <<bytes(1), byte(2)>>),
      Struct(2, <<byte(1), Struct(2, VideoCodecParameters), Struct(3, VideoCodecAttributes),
                  Struct(4, RTPParams)>>),
      Struct(3, <<byte(1), Struct(2, AudioCodecParameters), Struct(3, RTPParams), bool(4)>>)>>

StreamingStatus == <<byte(1)>>

-----------------------------------------------------------------------------
(* The configurations that a camera announces *)

\* Opus and AAC-ELD, one channel with a variable bitrate, 24 and 16 kHz.
DefaultAudioStreamConfiguration == <<<<<<3, <<1, 0, 2>>>>, <<2, <<1, 0, 1>>>>>>, 0>>

\* H.264 with three profiles, three levels, one packetization and ten sizes.
DefaultVideoStreamConfiguration ==
    <<<<<<0,
          <<<<<<0>>, <<1>>, <<2>>>>, <<<<0>>, <<1>>, <<2>>>>, <<<<0>>>>>>,
          <<<<1920, 1080, 30>>, <<1280, 720, 30>>, <<640, 360, 30>>, <<480, 270, 30>>,
            <<320, 180, 30>>, <<1280, 960, 30>>, <<1024, 768, 30>>, <<640, 480, 30>>,
            <<480, 360, 30>>, <<320, 240, 15>>>>>>>>>>

=============================================================================
