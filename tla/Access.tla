------------------------------- MODULE Access -------------------------------
(***************************************************************************)
(* What a controller reads and writes (characteristics.go, json.go), what  *)
(* becomes of a value (Values), and what it is told: GET and PUT           *)
(* /characteristics, GET /accessories, /prepare and SetValue of the host,  *)
(* for accessories whose identifiers Server.add has assigned (Identifiers). *)
(*                                                                         *)
(* There is one verified connection, and one request at a time: how        *)
(* requests and the host interleave is Characteristics.  A request is      *)
(* handled entry by entry.  What the functions of the host answer is       *)
(* chosen with the entry.                                                  *)
(***************************************************************************)
EXTENDS Values, Identifiers, SequencesExt

CONSTANTS
    Databases,     \* accessories: sequences of services
    Addressed(_),  \* of those there are, the addresses that requests ask for,
                   \* and some of nothing
    Inputs(_),     \* the values written to a characteristic of a format
    Reads,         \* what a ValueRequestFunc of the host answers
    Writes,        \* what a SetValueRequestFunc of the host answers
    MaxEntries     \* bound on the entries of a request

VARIABLES
    cs,      \* the characteristics by address: <<aid, iid>>
    events,  \* addresses that have events enabled for the connection
    twr,     \* session.twr: "none", "live" or "late" (past its deadline)
    req,     \* the request that is being handled: "idle", "get" or "put"
    good,    \* it has the pid of the preparation
    count,   \* its entries so far
    arr,     \* its answers so far
    last,    \* its last entry, and the answers to it
    res      \* the last response

vars == <<cs, events, twr, req, good, count, arr, last, res>>

-----------------------------------------------------------------------------

\* The items of an accessory: the services, each before its characteristics.
ItemsOf(services) ==
    FlattenSeq([i \in DOMAIN services |->
        <<nil>> \o services[i].cs])

\* The one accessory of the server, numbered by add.
Numbers(items) == add(<<[id |-> 0, name |-> "A", items |-> [i \in DOMAIN items |-> 0]]>>).as[1]

Addresses(services) ==
    LET items == ItemsOf(services)
        a == Numbers(items)
        At(i) == <<a.id, a.items[i]>>
        chars == {i \in DOMAIN items : items[i] # nil}
    IN [id \in {At(i) : i \in chars} |-> items[CHOOSE i \in chars : At(i) = id]]

-----------------------------------------------------------------------------
(* What is assumed of them *)

\* A characteristic as New and the host make it: the typed wrapper fits the
\* format, and min and max, which numbers have, are limits that some value keeps.
WellFormed(c) ==
    /\ c \in Characteristic
    /\ (c.go = "int") = (c.format \in IntFormat \cup {"uint64"})
    /\ (c.go = "float64") = (c.format = "float")
    /\ (c.go = "bool") = (c.format = "bool")
    /\ c.go \notin {"int", "float64"} => c.min = {} /\ c.max = {}
    /\ \A m, n \in c.min : m = n
    /\ \A m, n \in c.max : m = n
    /\ \A m \in c.min, n \in c.max : m <= n

\* A characteristic may start with any value.
ASSUME DatabasesAssumption ==
    \A services \in Databases :
        LET items == ItemsOf(services) IN
        /\ items \in Seq({nil} \cup Characteristic)
        /\ \A i \in DOMAIN items : items[i] # nil => WellFormed(items[i])
        /\ Addressed(DOMAIN Addresses(services)) \subseteq Nat \X Nat

\* A controller may write any value of JSON, whatever the format; xiam/to makes
\* one of the right type of it.
ASSUME InputsAssumption ==
    \A format \in Formats : \A x \in Inputs(format) :
        /\ x \in AnyValue
        /\ Parsed("uint64", x) \subseteq Int
        /\ Parsed("float64", x) \subseteq {y \in AnyValue : y.type = "float64" \/ y = NaN}
        /\ Parsed("bool", x) \subseteq {Value("bool", 0), Value("bool", 1)}

\* The status of the host's functions is 0 or one of the negative ones of HAP.
ASSUME HostAssumption ==
    \A host \in Reads \cup Writes :
        host \in [status : Int, value : AnyValue] /\ host.status <= 0

ASSUME MaxEntriesAssumption == MaxEntries \in Nat

-----------------------------------------------------------------------------

NoStatus == 1
Answer(id, status, value) == [id |-> id, status |-> status, value |-> value]

NoEntry == [id |-> <<0, 0>>, x |-> nil, ev |-> "none", answers |-> <<>>]

Response(request, code, answers) ==
    [request |-> request, code |-> code, answers |-> answers]

NoResponse == Response("none", 0, <<>>)

\* The handler of an answer that json.Marshal has no text for writes nothing,
\* and net/http sends an empty response of its own.
Sent(r) ==
    IF \A i \in DOMAIN r.answers : Encodable(r.answers[i].value) THEN r
    ELSE Response("empty", 200, <<>>)

Idle == req = "idle"

Begin(r) ==
    /\ Idle
    /\ req' = r
    /\ count' = 0
    /\ arr' = <<>>
    /\ res' = NoResponse

End(r) ==
    /\ req' = "idle"
    /\ good' = FALSE
    /\ count' = 0
    /\ arr' = <<>>
    /\ last' = NoEntry
    /\ res' = r

NextEntry ==
    /\ count < MaxEntries
    /\ count' = count + 1

-----------------------------------------------------------------------------
(* GET /characteristics *)

GetBegin ==
    /\ Begin("get")
    /\ UNCHANGED <<cs, events, twr, good, last>>

GetAnswer(id, host) ==
    IF id \notin DOMAIN cs THEN Answer(id, -70402, nil)
    ELSE LET v == ValueRequest(cs[id], host)
         IN IF v.status # 0 THEN Answer(id, v.status, nil) ELSE Answer(id, NoStatus, v.value)

GetEntry ==
    /\ req = "get"
    /\ NextEntry
    /\ \E id \in Addressed(DOMAIN cs), host \in Reads : arr' = Append(arr, GetAnswer(id, host))
    /\ UNCHANGED <<cs, events, twr, req, good, last, res>>

\* Mutant: the status stays implicit.
ImplicitStatus(answers) == answers

\* "when there's an error somewhere, status: 0 must now be explicit"
Explicit(answers) ==
    [i \in DOMAIN answers |->
        IF answers[i].status = NoStatus THEN [answers[i] EXCEPT !.status = 0] ELSE answers[i]]

GetEnd ==
    /\ req = "get"
    /\ count > 0
    /\ End(Sent(IF \E i \in DOMAIN arr : arr[i].status # NoStatus
                THEN Response("get", 207, Explicit(arr)) ELSE Response("get", 200, arr)))
    /\ UNCHANGED <<cs, events, twr>>

-----------------------------------------------------------------------------
(* GET /accessories *)

\* All that can be read; the stored value stands in for one that the host
\* cannot answer for now.
GetAccessories ==
    /\ Idle
    /\ \E host \in Reads :
          LET value(c) ==
                  LET v == ValueRequest(c, host) IN IF v.status = 0 THEN v.value ELSE c.val
              tell(id, answers) == Append(answers, Answer(id, NoStatus, value(cs[id])))
              readable == {id \in DOMAIN cs : IsReadable(cs[id])}
          IN res' = Sent(Response("accessories", 200, FoldSet(tell, <<>>, readable)))
    /\ UNCHANGED <<cs, events, twr, req, good, count, arr, last>>

-----------------------------------------------------------------------------
(* PUT /characteristics, /prepare *)

Prepare ==
    /\ Idle
    /\ twr' = "live"
    /\ UNCHANGED <<cs, events, req, good, count, arr, last, res>>

DeadlinePasses ==
    /\ twr = "live"
    /\ twr' = "late"
    /\ UNCHANGED <<cs, events, req, good, count, arr, last, res>>

PutBegin ==
    /\ Begin("put")
    /\ good' \in {FALSE, twr # "none"}
    /\ UNCHANGED <<cs, events, twr, last>>

\* Mutant: the event flag decides about the answer.
AnswersOfEvent(id, c, o, ev, r) ==
    LET told == (r \/ IsWriteResponse(c)) /\ o.response # nil
        status == IF ev # "none" THEN (IF IsObservable(c) THEN NoStatus ELSE -70406)
                  ELSE IF o.status # 0 \/ (told /\ IsWriteResponse(c)) THEN o.status
                  ELSE NoStatus
        answer == Answer(id, status, IF told THEN o.response ELSE nil)
    IN IF answer.status # NoStatus \/ answer.value # nil THEN <<answer>> ELSE <<>>

\* What an entry is answered: nothing, if all is well and no value is wanted;
\* an events flag that cannot be set is reported, twice, in place of the rest.
Answers(id, c, o, ev, r) ==
    LET told == (r \/ IsWriteResponse(c)) /\ o.response # nil
        unobservable == ev # "none" /\ ~IsObservable(c)
        status == IF unobservable THEN -70406
                  ELSE IF o.status # 0 \/ (told /\ IsWriteResponse(c)) THEN o.status
                  ELSE NoStatus
        answer == Answer(id, status, IF told THEN o.response ELSE nil)
    IN (IF unobservable THEN <<answer>> ELSE <<>>)
         \o (IF answer.status # NoStatus \/ answer.value # nil THEN <<answer>> ELSE <<>>)

\* A timed write that is too late, or of another pid, is refused.
InTime(c) == RequiresTimedWrite(c) => twr = "live" /\ good

\* The value of an entry gets as far as setValue.
Sets(c, x) == InTime(c) /\ x # nil /\ IsWritable(c)

\* What may become of the value of an entry, if it has one.
Written(c, x, host) ==
    IF ~InTime(c) THEN {Outcome(-70410, nil, c.val)}
    ELSE IF x = nil THEN {Outcome(0, nil, c.val)}
    ELSE SetValueRequest(c, x, host)

Store(id, v) == cs' = [cs EXCEPT ![id].val = v]

\* The events flag of an entry counts where there are events.
Subscriptions(id, ev) ==
    CASE ev = "on" /\ IsObservable(cs[id])  -> events \cup {id}
      [] ev = "off" /\ IsObservable(cs[id]) -> events \ {id}
      [] OTHER -> events

PutMissing ==
    /\ req = "put"
    /\ NextEntry
    /\ \E id \in Addressed(DOMAIN cs) \ DOMAIN cs :
          arr' = Append(arr, Answer(id, -70402, nil))
    /\ last' = NoEntry
    /\ UNCHANGED <<cs, events, twr, req, good, res>>

PutEntry ==
    /\ req = "put"
    /\ NextEntry
    /\ \E id \in Addressed(DOMAIN cs) \cap DOMAIN cs :
       \E x \in Inputs(cs[id].format) \cup {nil}, ev \in {"none", "on", "off"}, r \in BOOLEAN, host \in Writes :
       LET c == cs[id] IN
       /\ RequiresTimedWrite(c) => twr # "none"
       /\ Sets(c, x) => ~Panics(c, x)
       /\ \E o \in Written(c, x, host) :
             LET answers == Answers(id, c, o, ev, r) IN
             /\ Store(id, o.val)
             /\ arr' = arr \o answers
             /\ last' = [id |-> id, x |-> x, ev |-> ev, answers |-> answers]
       /\ events' = Subscriptions(id, ev)
    /\ UNCHANGED <<twr, req, good, res>>

\* The handler panics: net/http closes the connection, and the controller has
\* to verify again, from the same address or from another.  Without a
\* preparation a timed write has no deadline to look at; any other value may be
\* one that setValue or a typed function of the host panics on.
PutPanics ==
    /\ req = "put"
    /\ count < MaxEntries
    /\ \E id \in Addressed(DOMAIN cs) \cap DOMAIN cs :
          \/ RequiresTimedWrite(cs[id]) /\ twr = "none" /\ UNCHANGED cs
          \/ \E x \in Inputs(cs[id].format) \ {nil} :
                Sets(cs[id], x) /\ \E v \in LeftByPanic(cs[id], x) : Store(id, v)
    /\ twr' = "none"
    /\ events' \in {{}, events}
    /\ End(Response("closed", 0, <<>>))

PutEnd ==
    /\ req = "put"
    /\ twr' = "none"
    /\ End(Sent(IF arr = <<>> THEN Response("put", 204, <<>>) ELSE Response("put", 207, arr)))
    /\ UNCHANGED <<cs, events>>

-----------------------------------------------------------------------------
(* SetValue of the host *)

HostSetValue ==
    /\ Idle
    /\ \E id \in Addressed(DOMAIN cs) \cap DOMAIN cs : \E x \in Inputs(cs[id].format) :
          LET v == IF cs[id].go = "int" /\ x.type = "float64" THEN Truncate(x.v) ELSE x.v IN
          /\ ~Panics(cs[id], Typed(cs[id], v))
          /\ \E o \in SetValue(cs[id], v) : Store(id, o.val)
    /\ UNCHANGED <<events, twr, req, good, count, arr, last, res>>

-----------------------------------------------------------------------------

Init ==
    /\ \E services \in Databases : cs = Addresses(services)
    /\ events = {}
    /\ twr = "none"
    /\ req = "idle"
    /\ good = FALSE
    /\ count = 0
    /\ arr = <<>>
    /\ last = NoEntry
    /\ res = NoResponse

Next ==
    \/ GetBegin \/ GetEntry \/ GetEnd \/ GetAccessories
    \/ Prepare \/ DeadlinePasses \/ PutBegin \/ PutMissing \/ PutEntry \/ PutPanics \/ PutEnd
    \/ HostSetValue

Spec == Init /\ [][Next]_vars

-----------------------------------------------------------------------------
(* Properties *)

\* Every variable has its type, and the identifiers are those of add.
TypeOK ==
    /\ DOMAIN cs \subseteq {1} \X (Nat \ {0})
    /\ cs \in [DOMAIN cs -> Characteristic]
    /\ events \subseteq DOMAIN cs
    /\ twr \in {"none", "live", "late"}
    /\ req \in {"idle", "get", "put"}
    /\ good \in BOOLEAN
    /\ count \in 0..MaxEntries
    /\ last.id \in DOMAIN cs \cup {<<0, 0>>}
    /\ res.request \in {"none", "get", "put", "accessories", "closed", "empty"}

\* Whatever is written to a number or a bool, and whatever was there before, a
\* value that setValue stores has the type that the typed Value() asserts, and
\* is within min and max and valid; but for NaN, which clampFloat lets pass.
\* Of a string, a data or a tlv8 characteristic the code promises nothing.
StoredIsAccepted ==
    [][\A id \in DOMAIN cs :
          cs'[id] # cs[id] /\ cs'[id].format \notin TextFormat =>
              /\ HasTypeOf(cs'[id], cs'[id].val)
              /\ cs'[id].val # NaN => Accepts(cs'[id])]_vars

Failed(a) == a.status \notin {0, NoStatus}

\* An entry of a PUT that is not answered with an error has had its effect, for
\* the value and for the events: no failure is silent.
NoSilentFailure ==
    (\A i \in DOMAIN last.answers : ~Failed(last.answers[i])) /\ last # NoEntry =>
        LET c == cs[last.id] IN
        /\ last.x # nil => \E y \in convert(c, last.x) : c.val = clamp(c, y)
        /\ last.ev # "none" => (last.id \in events <=> last.ev = "on")

\* A write that is answered with an error has changed no value; unless the
\* error is about the events flag, which says nothing about the value.
RefusedKeepsValue ==
    [][\A i \in DOMAIN last'.answers :
          last' # last /\ Failed(last'.answers[i]) /\ last'.answers[i].status # -70406
              => cs' = cs]_vars

\* A multi status tells the status of every entry, and one of them at least is
\* an error; otherwise no entry has one.  What cannot be read is an error.  An
\* answer with a NaN in it is not sent, and tells nothing.
GetTellsAll ==
    res.request = "get" =>
        LET answers == Range(res.answers) IN
        /\ IF \E a \in answers : Failed(a)
           THEN res.code = 207 /\ \A a \in answers : a.status # NoStatus
           ELSE res.code = 200 /\ \A a \in answers : a.status = NoStatus
        /\ \A a \in answers : Failed(a) \/ (a.id \in DOMAIN cs /\ IsReadable(cs[a.id]))

=============================================================================
