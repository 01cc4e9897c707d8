------------------------------ MODULE MCAccess ------------------------------
EXTENDS Access, AccessoryCatalog

\* Small accessories, one for each way to limit a value: requests ask for them.
\* LockTargetState takes timed writes here, and the command answers writes.
Small ==
    {<<TargetTiltAngle, ProgrammableSwitchEvent>>,
     <<Valid(TargetHeaterCoolerState, {0, 2}), TargetTemperature>>,
     <<InRange(TargetHeaterCoolerState, 0, 1), Identify>>,
     <<Answering(On, "host"), Name>>,
     <<[LockTargetState EXCEPT !.permissions = @ \cup {"tw"}],
       Starts(NewString("18", ReadWriteResponse), 0)>>,
     <<NewInt("F1", "uint64", ReadWrite), TunneledAccessoryStateNumber>>}

\* These can be read and start with a value of another type than their own, or
\* with none: the host has to set one.  All other characteristics that are built
\* in start with a value that could have been written.
Unset ==
    {AppMatchingIdentifier, CharacteristicValueTransitionControl,
     ConfigureBridgedAccessoryStatus, SelectedStreamConfiguration,
     SupportedCharacteristicValueTransitionConfiguration,
     TunneledAccessoryStateNumber, WifiConfigurationControl}

ASSUME CatalogAssumption ==
    Unset = {c \in Range(Catalog) : IsReadable(c) /\ ~(HasTypeOf(c, c.val) /\ Accepts(c))}

\* The built-in accessories, services and characteristics, as they start.
MCDatabases ==
    {<<Service("0", chars)>> : chars \in Small}
      \cup {Accessories[i].ss : i \in DOMAIN Accessories}
      \cup {<<Informed, Services[i]>> : i \in DOMAIN Services}
      \cup {<<Informed, Service("0", <<c>>)>> : c \in Range(Catalog)}

MCAddressed(ids) == IF Cardinality(ids) <= 2 THEN ids \cup {<<1, 9>>} ELSE {}

\* Texts that are a number ("91"), no number, and "NaN".
Numeral   == Value("string", 91)
Word      == Value("string", 1)
NotNumber == Value("string", 2)

\* What JSON has for it: below, in and above the limits, with a fraction, and of
\* another type.
MCInputs(format) ==
    CASE format \in IntFormat -> {Value("float64", -One), Value("float64", One + 5000), Numeral}
      [] format = "uint64" -> {Value("float64", One)}
      [] format = "float"  -> {Value("float64", 205000), Numeral, NotNumber}
      [] format = "bool"   -> {Value("bool", 1), Value("float64", One), Word}
      [] OTHER -> {Word, Value("float64", One), Value("list", 0)}

MCParsed(to, x) ==
    CASE to = "uint64"  -> {IF x = Numeral THEN 91 ELSE 0}
      [] to = "float64" -> {IF x = NotNumber THEN NaN
                            ELSE Value("float64", IF x = Numeral THEN 91 * One ELSE 0)}
      [] to = "bool"    -> {Value("bool", 0)}

MCReads  == {Host(0, Value("bool", 1)), Host(-70403, nil)}
MCWrites == {NoHost, Host(0, Value("string", 2)), Host(-70402, nil)}

=============================================================================
