---------------------- MODULE CharacteristicCatalog ----------------------
(***************************************************************************)
(* The characteristics that are built in: characteristic/*.go, one file    *)
(* each, most of them generated from HomeKit's metadata.  Units and step   *)
(* values are left out: nothing in the program looks at them.              *)
(***************************************************************************)
EXTENDS Values

AccessoryFlags == Starts(NewInt("A6", "uint32", ReadNotify), 0)
AccessoryIdentifier == Holds(NewString("57", Read), Value("string", 0))
Active == Starts(NewInt("B0", "uint8", ReadWriteNotify), 0)
ActiveIdentifier == Starts(AtLeast(NewInt("E7", "uint32", ReadWriteNotify), 0), 0)
ActivityInterval == Starts(AtLeast(NewInt("23B", "uint32", ReadNotify), 0), 0)
AdministratorOnlyAccess == Starts(NewBool("1", ReadWriteNotify), 0)
AirParticulateDensity == Starts(Between(NewFloat("64", ReadNotify), 0, 1000 * One), 0)
AirParticulateSize == Starts(NewInt("65", "uint8", ReadNotify), 0)
AirQuality == Starts(NewInt("95", "uint8", ReadNotify), 0)
AppMatchingIdentifier == Holds(NewBytes("A4", "tlv8", Read), Value("bytes", 0))
AudioFeedback == Starts(NewBool("5", ReadWriteNotify), 0)
BatteryLevel == Starts(Between(NewInt("68", "uint8", ReadNotify), 0, 100), 0)
Brightness == Starts(Between(NewInt("8", "int32", ReadWriteNotify), 0, 100), 0)
CarbonDioxideDetected == Starts(NewInt("92", "uint8", ReadNotify), 0)
CarbonDioxideLevel == Starts(Between(NewFloat("93", ReadNotify), 0, 100000 * One), 0)
CarbonDioxidePeakLevel == Starts(Between(NewFloat("94", ReadNotify), 0, 100000 * One), 0)
CarbonMonoxideDetected == Starts(NewInt("69", "uint8", ReadNotify), 0)
CarbonMonoxideLevel == Starts(Between(NewFloat("90", ReadNotify), 0, 100 * One), 0)
CarbonMonoxidePeakLevel == Starts(Between(NewFloat("91", ReadNotify), 0, 100 * One), 0)
Category == Holds(Between(NewInt("A3", "uint16", ReadNotify), 1, 16), Value("int", 1))
CharacteristicValueActiveTransitionCount == Starts(NewInt("24B", "uint8", ReadNotify), 0)
CharacteristicValueTransitionControl ==
    Holds(NewBytes("143", "tlv8", ReadWriteResponse), Value("bytes", 0))
ChargingState == Starts(NewInt("8F", "uint8", ReadNotify), 0)
ClosedCaptions == Starts(Between(NewInt("DD", "uint8", ReadWriteNotify), 0, 1), 0)
ColorTemperature == Starts(Between(NewInt("CE", "uint32", ReadWriteNotify), 140, 500), 140)
ConfigureBridgedAccessory == NewBytes("A0", "tlv8", Write)
ConfigureBridgedAccessoryStatus ==
    Holds(NewBytes("9D", "tlv8", ReadNotify), Value("bytes", 0))
ConfiguredName == Starts(NewString("E3", ReadWriteNotify), 0)
ContactSensorState == Starts(NewInt("6A", "uint8", ReadNotify), 0)
CoolingThresholdTemperature ==
    Starts(Between(NewFloat("D", ReadWriteNotify), 10 * One, 35 * One), 10 * One)
CurrentAirPurifierState == Starts(NewInt("A9", "uint8", ReadNotify), 0)
CurrentAmbientLightLevel == Starts(Between(NewFloat("6B", ReadNotify), 1, 100000 * One), 1)
CurrentDoorState == Starts(NewInt("E", "uint8", ReadNotify), 0)
CurrentFanState == Starts(NewInt("AF", "uint8", ReadNotify), 0)
CurrentHeaterCoolerState == Starts(NewInt("B1", "uint8", ReadNotify), 0)
CurrentHeatingCoolingState == Starts(NewInt("F", "uint8", ReadNotify), 0)
CurrentHorizontalTiltAngle ==
    Starts(Between(NewInt("6C", "int32", ReadNotify), -90, 90), -90)
CurrentHumidifierDehumidifierState == Starts(NewInt("B3", "uint8", ReadNotify), 0)
CurrentMediaState == Starts(Between(NewInt("E0", "uint8", ReadNotify), 0, 3), 0)
CurrentPosition == Starts(Between(NewInt("6D", "uint8", ReadNotify), 0, 100), 0)
CurrentRelativeHumidity == Starts(Between(NewFloat("10", ReadNotify), 0, 100 * One), 0)
CurrentSlatState == Starts(NewInt("AA", "uint8", ReadNotify), 0)
CurrentTemperature == Starts(Between(NewFloat("11", ReadNotify), 0, 100 * One), 0)
CurrentTiltAngle == Starts(Between(NewInt("C1", "int32", ReadNotify), -90, 90), -90)
CurrentTime == Holds(NewString("9B", ReadWrite), Value("string", 0))
CurrentTransport == Holds(NewBool("22B", Read), Value("bool", 0))
CurrentVerticalTiltAngle == Starts(Between(NewInt("6E", "int32", ReadNotify), -90, 90), -90)
CurrentVisibilityState == Starts(Between(NewInt("135", "uint8", ReadNotify), 0, 3), 0)
DayOfTheWeek == Holds(Between(NewInt("98", "uint8", ReadWrite), 1, 7), Value("int", 1))
DigitalZoom == Starts(NewFloat("11D", ReadWriteNotify), 0)
DiscoverBridgedAccessories == Holds(NewInt("9E", "uint8", ReadWriteNotify), Value("int", 0))
DiscoveredBridgedAccessories == Holds(NewInt("9F", "uint16", ReadNotify), Value("int", 0))
DisplayOrder == Starts(NewBytes("136", "tlv8", ReadWriteNotify), 0)
FilterChangeIndication == Starts(NewInt("AC", "uint8", ReadNotify), 0)
FilterLifeLevel == Starts(Between(NewFloat("AB", ReadNotify), 0, 100 * One), 0)
FirmwareRevision == Starts(NewString("52", Read), 0)
HardwareRevision == Starts(NewString("53", Read), 0)
HeartBeat == Starts(NewInt("24A", "uint32", ReadNotify), 0)
HeatingThresholdTemperature ==
    Starts(Between(NewFloat("12", ReadWriteNotify), 0, 25 * One), 0)
HoldPosition == Repeating(NewBool("6F", Write))
Hue == Starts(Between(NewFloat("13", ReadWriteNotify), 0, 360 * One), 0)
Identifier == Starts(AtLeast(NewInt("E6", "uint32", Read), 0), 0)
Identify == NewBool("14", Write)
ImageMirroring == Starts(NewBool("11F", ReadWriteNotify), 0)
ImageRotation == Starts(Between(NewFloat("11E", ReadWriteNotify), 0, 270 * One), 0)
InUse == Starts(NewInt("D2", "uint8", ReadNotify), 0)
InputDeviceType == Starts(Between(NewInt("DC", "uint8", ReadNotify), 0, 5), 0)
InputSourceType == Starts(Between(NewInt("DB", "uint8", ReadNotify), 0, 10), 0)
IsConfigured == Starts(NewInt("D6", "uint8", ReadWriteNotify), 0)
LeakDetected == Starts(NewInt("70", "uint8", ReadNotify), 0)
LinkQuality == Holds(Between(NewInt("9C", "uint8", ReadNotify), 1, 4), Value("int", 1))
LockControlPoint == NewBytes("19", "tlv8", Write)
LockCurrentState == Starts(NewInt("1D", "uint8", ReadNotify), 0)
LockLastKnownAction == Starts(NewInt("1C", "uint8", ReadNotify), 0)
LockManagementAutoSecurityTimeout == Starts(NewInt("1A", "uint32", ReadWriteNotify), 0)
LockPhysicalControls == Starts(NewInt("A7", "uint8", ReadWriteNotify), 0)
LockTargetState == Starts(NewInt("1E", "uint8", ReadWriteNotify), 0)
Logs == Starts(NewBytes("1F", "tlv8", ReadNotify), 0)
Manufacturer == Starts(NewString("20", Read), 0)
Model == Starts(NewString("21", Read), 0)
MotionDetected == Starts(NewBool("22", ReadNotify), 0)
Mute == Starts(NewBool("11A", ReadWriteNotify), 0)
Name == Starts(NewString("23", Read), 0)
NightVision == Starts(NewBool("11B", ReadWriteNotify), 0)
NitrogenDioxideDensity == Starts(Between(NewFloat("C4", ReadNotify), 0, 1000 * One), 0)
ObstructionDetected == Starts(NewBool("24", ReadNotify), 0)
OccupancyDetected == Starts(NewInt("71", "uint8", ReadNotify), 0)
On == Starts(NewBool("25", ReadWriteNotify), 0)
OpticalZoom == Starts(NewFloat("11C", ReadWriteNotify), 0)
OutletInUse == Starts(NewBool("26", ReadNotify), 0)
OzoneDensity == Starts(Between(NewFloat("C3", ReadNotify), 0, 1000 * One), 0)
PairSetup == Starts(NewBytes("4C", "tlv8", ReadWrite), 0)
PairVerify == Starts(NewBytes("4E", "tlv8", ReadWrite), 0)
PairingFeatures == Starts(NewInt("4F", "uint8", Read), 0)
PairingPairings == Starts(NewBytes("50", "tlv8", ReadWrite), 0)
PictureMode == Starts(Between(NewInt("E2", "uint16", ReadWriteNotify), 0, 13), 0)
Ping == Starts(NewBytes("23C", "tlv8", Read), 0)
PM10Density == Starts(Between(NewFloat("C7", ReadNotify), 0, 1000 * One), 0)
PM2_5Density == Starts(Between(NewFloat("C6", ReadNotify), 0, 1000 * One), 0)
PositionState == Starts(NewInt("72", "uint8", ReadNotify), 0)
PowerModeSelection == Between(NewInt("DF", "uint8", Write), 0, 1)
ProgramMode == Starts(NewInt("D1", "uint8", ReadNotify), 0)
ProgrammableSwitchEvent ==
    Answering(Repeating(Starts(NewInt("73", "uint8", ReadNotify), 0)), "nil")
ProgrammableSwitchOutputState ==
    Holds(Between(NewInt("74", "uint8", ReadWriteNotify), 0, 1), Value("int", 0))
Reachable == Holds(NewBool("63", ReadNotify), Value("bool", 0))
RelativeHumidityDehumidifierThreshold ==
    Starts(Between(NewFloat("C9", ReadWriteNotify), 0, 100 * One), 0)
RelativeHumidityHumidifierThreshold ==
    Starts(Between(NewFloat("CA", ReadWriteNotify), 0, 100 * One), 0)
RemainingDuration == Starts(Between(NewInt("D4", "uint32", ReadNotify), 0, 3600), 0)
RemoteKey == Between(NewInt("E1", "uint8", Write), 0, 16)
ResetFilterIndication == Between(NewInt("AD", "uint8", Write), 1, 1)
RotationDirection == Starts(NewInt("28", "int32", ReadWriteNotify), 0)
RotationSpeed == Starts(Between(NewFloat("29", ReadWriteNotify), 0, 100 * One), 0)
Saturation == Starts(Between(NewFloat("2F", ReadWriteNotify), 0, 100 * One), 0)
SecuritySystemAlarmType == Starts(Between(NewInt("8E", "uint8", ReadNotify), 0, 1), 0)
SecuritySystemCurrentState == Starts(NewInt("66", "uint8", ReadNotify), 0)
SecuritySystemTargetState == Starts(NewInt("67", "uint8", ReadWriteNotify), 0)
SelectedCameraRecordingConfiguration == Starts(NewBytes("209", "tlv8", ReadWriteNotify), 0)
SelectedRTPStreamConfiguration == Starts(NewBytes("117", "tlv8", ReadWrite), 0)
SelectedStreamConfiguration == Holds(NewBytes("117", "tlv8", ReadWrite), Value("bytes", 0))
SerialNumber == Starts(NewString("30", Read), 0)
ServiceLabelIndex == Starts(Between(NewInt("CB", "uint8", Read), 1, 255), 1)
ServiceLabelNamespace == Starts(NewInt("CD", "uint8", Read), 0)
SetDuration == Starts(Between(NewInt("D3", "uint32", ReadWriteNotify), 0, 3600), 0)
SetupEndpoints == Starts(NewBytes("118", "tlv8", ReadWrite), 0)
SlatType == Starts(NewInt("C0", "uint8", Read), 0)
SleepDiscoveryMode == Starts(Between(NewInt("E8", "uint8", ReadNotify), 0, 1), 0)
SleepInterval == Starts(Between(NewInt("23A", "uint32", Read), 0, 67108863), 0)
SmokeDetected == Starts(NewInt("76", "uint8", ReadNotify), 0)
SoftwareRevision == Holds(NewString("54", Read), Value("string", 0))
StatusActive == Starts(NewBool("75", ReadNotify), 0)
StatusFault == Starts(NewInt("77", "uint8", ReadNotify), 0)
StatusJammed == Starts(NewInt("78", "uint8", ReadNotify), 0)
StatusLowBattery == Starts(NewInt("79", "uint8", ReadNotify), 0)
StatusTampered == Starts(NewInt("7A", "uint8", ReadNotify), 0)
StreamingStatus == Starts(NewBytes("120", "tlv8", ReadNotify), 0)
SulphurDioxideDensity == Starts(Between(NewFloat("C5", ReadNotify), 0, 1000 * One), 0)
SupportedAudioRecordingConfiguration == Starts(NewBytes("207", "tlv8", ReadNotify), 0)
SupportedAudioStreamConfiguration == Starts(NewBytes("115", "tlv8", Read), 0)
SupportedCameraRecordingConfiguration == Starts(NewBytes("205", "tlv8", ReadNotify), 0)
SupportedCharacteristicValueTransitionConfiguration ==
    Holds(NewBytes("144", "tlv8", Read), Value("bytes", 0))
SupportedRTPConfiguration == Starts(NewBytes("116", "tlv8", Read), 0)
SupportedVideoRecordingConfiguration == Starts(NewBytes("206", "tlv8", ReadNotify), 0)
SupportedVideoStreamConfiguration == Starts(NewBytes("114", "tlv8", Read), 0)
SwingMode == Starts(NewInt("B6", "uint8", ReadWriteNotify), 0)
TargetAirPurifierState == Starts(NewInt("A8", "uint8", ReadWriteNotify), 0)
TargetAirQuality == Starts(NewInt("AE", "uint8", ReadWriteNotify), 0)
TargetDoorState == Starts(NewInt("32", "uint8", ReadWriteNotify), 0)
TargetFanState == Starts(NewInt("BF", "uint8", ReadWriteNotify), 0)
TargetHeaterCoolerState == Starts(NewInt("B2", "uint8", ReadWriteNotify), 0)
TargetHeatingCoolingState == Starts(NewInt("33", "uint8", ReadWriteNotify), 0)
TargetHorizontalTiltAngle ==
    Starts(Between(NewInt("7B", "int32", ReadWriteNotify), -90, 90), -90)
TargetHumidifierDehumidifierState == Starts(NewInt("B4", "uint8", ReadWriteNotify), 0)
TargetMediaState == Starts(Between(NewInt("137", "uint8", ReadWriteNotify), 0, 2), 0)
TargetPosition == Starts(Between(NewInt("7C", "uint8", ReadWriteNotify), 0, 100), 0)
TargetRelativeHumidity == Starts(Between(NewFloat("34", ReadWriteNotify), 0, 100 * One), 0)
TargetSlatState == Starts(NewInt("BE", "uint8", ReadWriteNotify), 0)
TargetTemperature ==
    Starts(Between(NewFloat("35", ReadWriteNotify), 10 * One, 38 * One), 10 * One)
TargetTiltAngle == Starts(Between(NewInt("C2", "int32", ReadWriteNotify), -90, 90), -90)
TargetVerticalTiltAngle ==
    Starts(Between(NewInt("7D", "int32", ReadWriteNotify), -90, 90), -90)
TargetVisibilityState == Starts(Between(NewInt("134", "uint8", ReadWriteNotify), 0, 2), 0)
TemperatureDisplayUnits == Starts(NewInt("36", "uint8", ReadWriteNotify), 0)
TimeUpdate == Holds(NewBool("9A", ReadNotify), Value("bool", 0))
TunnelConnectionTimeout == Holds(NewInt("61", "uint32", ReadWriteNotify), Value("int", 0))
TunneledAccessoryAdvertising == Holds(NewBool("60", ReadWriteNotify), Value("bool", 0))
TunneledAccessoryConnected == Holds(NewBool("59", ReadWriteNotify), Value("bool", 0))
TunneledAccessoryStateNumber == Holds(NewFloat("58", ReadNotify), Value("int", 0))
ValveType == Starts(NewInt("D5", "uint8", ReadNotify), 0)
Version == Starts(NewString("37", ReadNotify), 0)
VOCDensity == Starts(Between(NewFloat("C8", ReadNotify), 0, 1000 * One), 0)
Volume == Starts(Between(NewInt("119", "uint8", ReadWriteNotify), 0, 100), 0)
VolumeControlType == Starts(Between(NewInt("E9", "uint8", ReadNotify), 0, 3), 0)
VolumeSelector == Between(NewInt("EA", "uint8", Write), 0, 1)
WaterLevel == Starts(Between(NewFloat("B5", ReadNotify), 0, 100 * One), 0)
WifiCapabilities == Holds(NewInt("22C", "uint32", Read), Value("int", 1))
WifiConfigurationControl == NewBytes("None", "tlv8", ReadWriteNotify)

-----------------------------------------------------------------------------

\* All of them.
Catalog ==
    <<AccessoryFlags, AccessoryIdentifier, Active, ActiveIdentifier,
      ActivityInterval, AdministratorOnlyAccess, AirParticulateDensity,
      AirParticulateSize, AirQuality, AppMatchingIdentifier, AudioFeedback,
      BatteryLevel, Brightness, CarbonDioxideDetected, CarbonDioxideLevel,
      CarbonDioxidePeakLevel, CarbonMonoxideDetected, CarbonMonoxideLevel,
      CarbonMonoxidePeakLevel, Category,
      CharacteristicValueActiveTransitionCount,
      CharacteristicValueTransitionControl, ChargingState, ClosedCaptions,
      ColorTemperature, ConfigureBridgedAccessory,
      ConfigureBridgedAccessoryStatus, ConfiguredName, ContactSensorState,
      CoolingThresholdTemperature, CurrentAirPurifierState,
      CurrentAmbientLightLevel, CurrentDoorState, CurrentFanState,
      CurrentHeaterCoolerState, CurrentHeatingCoolingState,
      CurrentHorizontalTiltAngle, CurrentHumidifierDehumidifierState,
      CurrentMediaState, CurrentPosition, CurrentRelativeHumidity,
      CurrentSlatState, CurrentTemperature, CurrentTiltAngle, CurrentTime,
      CurrentTransport, CurrentVerticalTiltAngle, CurrentVisibilityState,
      DayOfTheWeek, DigitalZoom, DiscoverBridgedAccessories,
      DiscoveredBridgedAccessories, DisplayOrder, FilterChangeIndication,
      FilterLifeLevel, FirmwareRevision, HardwareRevision, HeartBeat,
      HeatingThresholdTemperature, HoldPosition, Hue, Identifier, Identify,
      ImageMirroring, ImageRotation, InUse, InputDeviceType, InputSourceType,
      IsConfigured, LeakDetected, LinkQuality, LockControlPoint,
      LockCurrentState, LockLastKnownAction, LockManagementAutoSecurityTimeout,
      LockPhysicalControls, LockTargetState, Logs, Manufacturer, Model,
      MotionDetected, Mute, Name, NightVision, NitrogenDioxideDensity,
      ObstructionDetected, OccupancyDetected, On, OpticalZoom, OutletInUse,
      OzoneDensity, PairSetup, PairVerify, PairingFeatures, PairingPairings,
      PictureMode, Ping, PM10Density, PM2_5Density, PositionState,
      PowerModeSelection, ProgramMode, ProgrammableSwitchEvent,
      ProgrammableSwitchOutputState, Reachable,
      RelativeHumidityDehumidifierThreshold,
      RelativeHumidityHumidifierThreshold, RemainingDuration, RemoteKey,
      ResetFilterIndication, RotationDirection, RotationSpeed, Saturation,
      SecuritySystemAlarmType, SecuritySystemCurrentState,
      SecuritySystemTargetState, SelectedCameraRecordingConfiguration,
      SelectedRTPStreamConfiguration, SelectedStreamConfiguration,
      SerialNumber, ServiceLabelIndex, ServiceLabelNamespace, SetDuration,
      SetupEndpoints, SlatType, SleepDiscoveryMode, SleepInterval,
      SmokeDetected, SoftwareRevision, StatusActive, StatusFault, StatusJammed,
      StatusLowBattery, StatusTampered, StreamingStatus, SulphurDioxideDensity,
      SupportedAudioRecordingConfiguration, SupportedAudioStreamConfiguration,
      SupportedCameraRecordingConfiguration,
      SupportedCharacteristicValueTransitionConfiguration,
      SupportedRTPConfiguration, SupportedVideoRecordingConfiguration,
      SupportedVideoStreamConfiguration, SwingMode, TargetAirPurifierState,
      TargetAirQuality, TargetDoorState, TargetFanState,
      TargetHeaterCoolerState, TargetHeatingCoolingState,
      TargetHorizontalTiltAngle, TargetHumidifierDehumidifierState,
      TargetMediaState, TargetPosition, TargetRelativeHumidity,
      TargetSlatState, TargetTemperature, TargetTiltAngle,
      TargetVerticalTiltAngle, TargetVisibilityState, TemperatureDisplayUnits,
      TimeUpdate, TunnelConnectionTimeout, TunneledAccessoryAdvertising,
      TunneledAccessoryConnected, TunneledAccessoryStateNumber, ValveType,
      Version, VOCDensity, Volume, VolumeControlType, VolumeSelector,
      WaterLevel, WifiCapabilities, WifiConfigurationControl>>

=============================================================================
