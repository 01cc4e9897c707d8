------------------------- MODULE AccessoryCatalog -------------------------
(***************************************************************************)
(* The services and accessories that are built in (service/*.go and        *)
(* accessory/*.go): a service with its characteristics, an accessory with  *)
(* its services, in the order in which they get their identifiers.         *)
(***************************************************************************)
EXTENDS CharacteristicCatalog, Sequences, SequencesExt

Service(type, cs) == [type |-> type, cs |-> cs]

AccessoryInformation ==
    Service("3E",
        <<Identify, Manufacturer, Model, Name, SerialNumber, FirmwareRevision>>)
AccessoryRuntimeInformation ==
    Service("239",
        <<Ping>>)
AirPurifier ==
    Service("BB",
        <<Active, CurrentAirPurifierState, TargetAirPurifierState>>)
AirQualitySensor ==
    Service("8D",
        <<AirQuality>>)
BatteryService ==
    Service("96",
        <<BatteryLevel, ChargingState, StatusLowBattery>>)
CameraControl ==
    Service("111",
        <<On>>)
CameraRecordingManagement ==
    Service("204",
        <<SupportedCameraRecordingConfiguration,
          SupportedVideoRecordingConfiguration,
          SupportedAudioRecordingConfiguration,
          SelectedCameraRecordingConfiguration>>)
CameraRTPStreamManagement ==
    Service("110",
        <<SupportedVideoStreamConfiguration, SupportedAudioStreamConfiguration,
          SupportedRTPConfiguration, SelectedRTPStreamConfiguration,
          StreamingStatus, SetupEndpoints>>)
CarbonDioxideSensor ==
    Service("97",
        <<CarbonDioxideDetected>>)
CarbonMonoxideSensor ==
    Service("7F",
        <<CarbonMonoxideDetected>>)
ColoredLightbulb ==
    Service("43",
        <<On, Brightness, Saturation, Hue>>)
ContactSensor ==
    Service("80",
        <<ContactSensorState>>)
Cooler ==
    Service("BC",
        <<Active, Valid(CurrentHeaterCoolerState, {0, 1, 3}),
          Valid(TargetHeaterCoolerState, {0, 2}), CurrentTemperature,
          CoolingThresholdTemperature>>)
Dehumidifier ==
    Service("BD",
        <<CurrentRelativeHumidity,
          Valid(CurrentHumidifierDehumidifierState, {0, 1, 3}),
          Starts(Valid(TargetHumidifierDehumidifierState, {2}), 2), Active,
          RelativeHumidityDehumidifierThreshold>>)
Door ==
    Service("81",
        <<CurrentPosition, PositionState, TargetPosition>>)
Doorbell ==
    Service("121",
        <<ProgrammableSwitchEvent>>)
Fan ==
    Service("40",
        <<On>>)
FanV2 ==
    Service("B7",
        <<Active>>)
Faucet ==
    Service("D7",
        <<Active>>)
FilterMaintenance ==
    Service("BA",
        <<FilterChangeIndication>>)
GarageDoorOpener ==
    Service("41",
        <<CurrentDoorState, TargetDoorState, ObstructionDetected>>)
Heater ==
    Service("BC",
        <<Active, Valid(CurrentHeaterCoolerState, {0, 1, 2}),
          Valid(TargetHeaterCoolerState, {0, 1}), CurrentTemperature,
          HeatingThresholdTemperature>>)
HeaterCooler ==
    Service("BC",
        <<Active, CurrentHeaterCoolerState, TargetHeaterCoolerState,
          CurrentTemperature>>)
Humidifier ==
    Service("BD",
        <<CurrentRelativeHumidity,
          Valid(CurrentHumidifierDehumidifierState, {0, 1, 2}),
          Starts(Valid(TargetHumidifierDehumidifierState, {1}), 1), Active,
          RelativeHumidityHumidifierThreshold>>)
HumidifierDehumidifier ==
    Service("BD",
        <<CurrentRelativeHumidity,
          Valid(CurrentHumidifierDehumidifierState, {0, 1, 2, 3}),
          Valid(TargetHumidifierDehumidifierState, {0, 1, 2}), Active>>)
HumiditySensor ==
    Service("82",
        <<CurrentRelativeHumidity>>)
InputSource ==
    Service("D9",
        <<ConfiguredName, InputSourceType, IsConfigured, CurrentVisibilityState>>)
IrrigationSystem ==
    Service("CF",
        <<Active, ProgramMode, InUse>>)
LeakSensor ==
    Service("83",
        <<LeakDetected>>)
LightSensor ==
    Service("84",
        <<CurrentAmbientLightLevel>>)
Lightbulb ==
    Service("43",
        <<On>>)
LockManagement ==
    Service("44",
        <<LockControlPoint, Version>>)
LockMechanism ==
    Service("45",
        <<LockCurrentState, LockTargetState>>)
Microphone ==
    Service("112",
        <<Volume, Mute>>)
MotionSensor ==
    Service("85",
        <<MotionDetected>>)
OccupancySensor ==
    Service("86",
        <<OccupancyDetected>>)
Outlet ==
    Service("47",
        <<On, OutletInUse>>)
ProtocolInformation ==
    Service("A2",
        <<Version>>)
SecuritySystem ==
    Service("7E",
        <<SecuritySystemCurrentState, SecuritySystemTargetState>>)
ServiceLabel ==
    Service("CC",
        <<ServiceLabelNamespace>>)
Slat ==
    Service("B9",
        <<SlatType, CurrentSlatState>>)
SmokeSensor ==
    Service("87",
        <<SmokeDetected>>)
Speaker ==
    Service("113",
        <<Mute>>)
StatelessProgrammableSwitch ==
    Service("89",
        <<ProgrammableSwitchEvent>>)
Switch ==
    Service("49",
        <<On>>)
Television ==
    Service("D8",
        <<Active, ActiveIdentifier, ConfiguredName, SleepDiscoveryMode>>)
TemperatureSensor ==
    Service("8A",
        <<CurrentTemperature>>)
Thermostat ==
    Service("4A",
        <<CurrentHeatingCoolingState, TargetHeatingCoolingState,
          CurrentTemperature, TargetTemperature, TemperatureDisplayUnits>>)
Valve ==
    Service("D0",
        <<Active, InUse, ValveType>>)
Window ==
    Service("8B",
        <<CurrentPosition, TargetPosition, PositionState>>)
WindowCovering ==
    Service("8C",
        <<CurrentPosition, TargetPosition, PositionState>>)
-----------------------------------------------------------------------------

\* The information comes first.  Its texts are "-" until the host has others.
Informed ==
    [AccessoryInformation EXCEPT !.cs =
        [i \in DOMAIN @ |-> IF @[i].go = "string" THEN Starts(@[i], 1) ELSE @[i]]]

Accessory(category, services) == [category |-> category, ss |-> <<Informed>> \o services]

NewAirPurifier == Accessory(19, <<AirPurifier>>)
NewBridge == Accessory(2, <<>>)
NewCamera == Accessory(17, <<CameraControl, CameraRTPStreamManagement>>)
NewColoredLightbulb == Accessory(5, <<ColoredLightbulb>>)
NewContactSensor == Accessory(10, <<ContactSensor>>)
NewCooler == Accessory(21, <<Cooler>>)
NewDehumidifier == Accessory(23, <<Dehumidifier>>)
NewDoor == Accessory(12, <<Door>>)
NewFan == Accessory(3, <<Fan>>)
NewFaucet == Accessory(29, <<Faucet>>)
NewGarageDoorOpener == Accessory(4, <<GarageDoorOpener>>)
NewHeater == Accessory(20, <<Heater>>)
NewHumidifier == Accessory(22, <<Humidifier>>)
NewLightbulb == Accessory(5, <<Lightbulb>>)
NewMotionSensor == Accessory(10, <<MotionSensor>>)
NewOutlet == Accessory(7, <<Outlet>>)
NewSecuritySystem == Accessory(11, <<SecuritySystem>>)
NewSwitch == Accessory(8, <<Switch>>)
NewTelevision == Accessory(31, <<Television, Speaker>>)
NewTemperatureSensor == Accessory(9, <<TemperatureSensor>>)
NewThermostat == Accessory(9, <<Thermostat>>)
NewWindow == Accessory(13, <<Window>>)
NewWindowCovering == Accessory(14, <<WindowCovering>>)

-----------------------------------------------------------------------------

Services ==
    <<AccessoryInformation, AccessoryRuntimeInformation, AirPurifier,
      AirQualitySensor, BatteryService, CameraControl,
      CameraRecordingManagement, CameraRTPStreamManagement,
      CarbonDioxideSensor, CarbonMonoxideSensor, ColoredLightbulb,
      ContactSensor, Cooler, Dehumidifier, Door, Doorbell, Fan, FanV2, Faucet,
      FilterMaintenance, GarageDoorOpener, Heater, HeaterCooler, Humidifier,
      HumidifierDehumidifier, HumiditySensor, InputSource, IrrigationSystem,
      LeakSensor, LightSensor, Lightbulb, LockManagement, LockMechanism,
      Microphone, MotionSensor, OccupancySensor, Outlet, ProtocolInformation,
      SecuritySystem, ServiceLabel, Slat, SmokeSensor, Speaker,
      StatelessProgrammableSwitch, Switch, Television, TemperatureSensor,
      Thermostat, Valve, Window, WindowCovering>>

Accessories ==
    <<NewAirPurifier, NewBridge, NewCamera, NewColoredLightbulb,
      NewContactSensor, NewCooler, NewDehumidifier, NewDoor, NewFan, NewFaucet,
      NewGarageDoorOpener, NewHeater, NewHumidifier, NewLightbulb,
      NewMotionSensor, NewOutlet, NewSecuritySystem, NewSwitch, NewTelevision,
      NewTemperatureSensor, NewThermostat, NewWindow, NewWindowCovering>>

=============================================================================
