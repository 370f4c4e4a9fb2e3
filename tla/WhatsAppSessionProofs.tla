----------------------- MODULE WhatsAppSessionProofs -----------------------
(***************************************************************************)
(* One thing under way per provider: for any number of provider objects,    *)
(* sockets, requests and crashes, until a method ends one of its sockets a  *)
(* provider has an attempt, a socket or a timer, never two of them.         *)
(*                                                                         *)
(* Every step is about one provider, and about sockets that are its own, or *)
(* nobody's: the other providers do not notice (OneProviderChanges).        *)
(***************************************************************************)
EXTENDS WhatsAppSession, FiniteSetTheorems, TLAPS

-----------------------------------------------------------------------------
(* The inductive invariant *)

NoCall(p) == \A c \in Callers : p.calls[c] = 0

OneCall(p) ==
    \E c \in Callers : p.calls[c] = 1 /\ \A d \in Callers \ {c} : p.calls[d] = 0

\* What an object without a socket can be at: nothing, a connect() somebody waits
\* for, or the timer of the next one.
Resting(p) == p.status \in {"DISCONNECTED", "ERROR"} /\ NoCall(p) /\ p.timers = 0

Attempting(p) == p.status = "CONNECTING" /\ OneCall(p) /\ p.timers = 0

Waiting(p) == p.status = "RECONNECTING" /\ NoCall(p) /\ p.timers = 1

\* p is the object i, s the sockets.
Holding(i, p, s) ==
    /\ p.status \in EngagedButReconnecting /\ NoCall(p) /\ p.timers = 0
    /\ p.sock # None
    /\ s[p.sock].state \in {"new", "qr", "open"}
    /\ \A k \in Sockets : s[k].owner = i => k = p.sock

NoSocketOf(i, s) == \A k \in Sockets : s[k].owner # i

OneAtWork(i, p, s) ==
    \/ /\ Resting(p) \/ Attempting(p) \/ Waiting(p)
       /\ p.sock = None /\ NoSocketOf(i, s)
    \/ Holding(i, p, s)

\* The socket an object refers to is its own.
RefersToItsOwn(i, p, s) == p.sock # None => s[p.sock].owner = i

ProviderInv(i, p, s) ==
    RefersToItsOwn(i, p, s) /\ (p.disturbed \/ OneAtWork(i, p, s))

\* The sockets have their type.
SocketsOK(s) ==
    /\ s \in [Sockets -> Socket]
    /\ \A k \in Sockets : s[k].state # "none" => s[k].owner \in Providers

\* So have the other variables.
ProcessOK ==
    /\ current \in Providers \cup {None}
    /\ registered \in BOOLEAN /\ booted \in BOOLEAN /\ creds \in BOOLEAN
    /\ loading \in Nat /\ requests \in Nat /\ crashes \in Nat
    /\ db \in BOOLEAN /\ writes \subseteq BOOLEAN

SessionInv ==
    /\ ProcessOK /\ SocketsOK(sock)
    /\ prov \in [Providers -> Provider]
    /\ \A i \in Providers : ProviderInv(i, prov[i], sock)

-----------------------------------------------------------------------------
(* Objects and sockets are numbers, None is not *)

LEMMA NoneIsNoObject == None \notin Providers /\ None \notin Sockets
  BY ObjectsAssumption

\* At most one socket, and the calls of one caller, are counted.
LEMMA CountOfOneAtWork ==
    ASSUME SessionInv, NEW i \in Providers, ~prov[i].disturbed
    PROVE  /\ CallsOf(i) + Cardinality(SocketsOf(i)) + prov[i].timers <= 1
           /\ \A k \in SocketsOf(i) : prov[i].sock = k
           /\ prov[i].timers > 0 <=> prov[i].status = "RECONNECTING"
           /\ CallsOf(i) > 0 => prov[i].status = "CONNECTING"
<1> DEFINE p == prov[i]
<1>1. p \in Provider /\ OneAtWork(i, p, sock) /\ RefersToItsOwn(i, p, sock)
  BY DEF SessionInv, ProviderInv
<1>2. CASE p.sock = None /\ NoSocketOf(i, sock) /\ (Resting(p) \/ Attempting(p) \/ Waiting(p))
  <2>1. SocketsOf(i) = {} /\ Cardinality(SocketsOf(i)) = 0
    BY <1>2, FS_EmptySet DEF SocketsOf, NoSocketOf
  <2>2. CASE Resting(p)
    BY <2>1, <2>2 DEF Resting, NoCall, Callers, CallsOf
  <2>3. CASE Attempting(p)
    <3>1. CallsOf(i) = 1
      BY <2>3 DEF Attempting, OneCall, Callers, CallsOf
    <3> QED BY <2>1, <2>3, <3>1 DEF Attempting
  <2>4. CASE Waiting(p)
    BY <2>1, <2>4 DEF Waiting, NoCall, Callers, CallsOf
  <2> QED BY <1>2, <2>2, <2>3, <2>4
<1>3. CASE Holding(i, p, sock)
  <2>1. p.sock \in Sockets
    BY <1>1, <1>3 DEF Holding, Provider
  <2>2. SocketsOf(i) = {p.sock}
    BY <1>1, <1>3, <2>1 DEF Holding, SocketsOf, Live, RefersToItsOwn
  <2>3. Cardinality(SocketsOf(i)) = 1
    BY <2>2, FS_Singleton
  <2>4. CallsOf(i) = 0 /\ p.timers = 0 /\ p.status # "RECONNECTING"
    BY <1>3 DEF Holding, NoCall, Callers, CallsOf, EngagedButReconnecting
  <2> QED BY <2>2, <2>3, <2>4
<1> QED BY <1>1, <1>2, <1>3 DEF OneAtWork

LEMMA InvImpliesOneThing == SessionInv => OneThingUnderWay
  BY CountOfOneAtWork DEF OneThingUnderWay, SessionInv, ProcessOK, SocketsOK, TypeOK

-----------------------------------------------------------------------------
(* Reports and new objects *)

LEMMA ReportsAreTyped ==
    ASSUME NEW p, NEW heard, NEW own, writes \subseteq BOOLEAN, Reports(p, heard, own)
    PROVE  writes' \subseteq BOOLEAN
<1> DEFINE told == own \cup (IF p.callbacks THEN heard ELSE {})
<1>1. writes' = writes \cup {Restored(st) : st \in told}
  BY DEF Reports
<1>2. \A st : Restored(st) \in BOOLEAN
  BY DEF Restored
<1> HIDE DEF told
<1> QED BY <1>1, <1>2

LEMMA NewProviderIsTyped == NewProvider \in Provider
  BY ObjectsAssumption DEF NewProvider, Provider, Status

LEMMA NewProviderRests ==
    ASSUME NEW i, NEW s, NoSocketOf(i, s)
    PROVE  ProviderInv(i, NewProvider, s)
  BY DEF ProviderInv, RefersToItsOwn, OneAtWork, Resting, NoCall, NewProvider

\* Nothing that lives has an owner that is gone.
LEMMA GoneOwnsNothing ==
    ASSUME NEW i \in Providers, Gone(i) PROVE NoSocketOf(i, sock)
  BY DEF Gone, NoSocketOf

-----------------------------------------------------------------------------
(* What connect() of a provider does to it *)

LEMMA ConnectsIsTyped ==
    ASSUME NEW p \in Provider, NEW c \in Callers
    PROVE  /\ Connects(p, c) \in Provider
           /\ Connects(p, c).sock = p.sock /\ Connects(p, c).disturbed = p.disturbed
<1> DEFINE q == ConnectsUnguarded(p, c)
<1>1. [p.calls EXCEPT ![c] = @ + 1] \in [Callers -> Nat]
  BY DEF Provider
<1>2. q = [p EXCEPT !.inProgress = TRUE, !.status = "CONNECTING",
                    !.calls = [p.calls EXCEPT ![c] = @ + 1]]
  BY DEF ConnectsUnguarded, Provider
<1>3. q \in Provider /\ q.sock = p.sock /\ q.disturbed = p.disturbed
  BY <1>1, <1>2 DEF Provider, Status
<1> QED BY <1>3 DEF Connects

\* An object at rest, or whose timer has just fired, makes an attempt or stays.
LEMMA ConnectsOnce ==
    ASSUME NEW p \in Provider, NEW c \in Callers, NoCall(p), p.timers = 0, ~Refuses(p)
    PROVE  Attempting(Connects(p, c))
<1>1. Connects(p, c).calls = [p.calls EXCEPT ![c] = @ + 1]
  BY DEF Connects, ConnectsUnguarded, Provider
<1>2. p.calls \in [Callers -> Nat] /\ p.calls[c] = 0
  BY DEF Provider, NoCall
<1>3. Connects(p, c).calls[c] = 1 /\ \A d \in Callers \ {c} : Connects(p, c).calls[d] = 0
  BY <1>1, <1>2 DEF NoCall
<1>4. Connects(p, c).status = "CONNECTING" /\ Connects(p, c).timers = 0
  BY DEF Connects, ConnectsUnguarded, Provider
<1> QED BY <1>3, <1>4 DEF Attempting, OneCall

\* A connect() keeps one thing under way, unless it comes upon an object at work
\* whose status does not say so; the manager and restoreSessions look at the status.
LEMMA ConnectsKeepsOneAtWork ==
    ASSUME NEW i \in Providers, NEW p \in Provider, NEW c \in Callers, NEW s,
           ProviderInv(i, p, s), p.disturbed \/ p.status \notin Engaged
    PROVE  ProviderInv(i, Connects(p, c), s)
<1> DEFINE q == Connects(p, c)
<1>1. q \in Provider /\ q.sock = p.sock /\ q.disturbed = p.disturbed
  BY ConnectsIsTyped
<1>2. RefersToItsOwn(i, q, s)
  BY <1>1 DEF ProviderInv, RefersToItsOwn
<1>3. CASE p.disturbed
  BY <1>1, <1>2, <1>3 DEF ProviderInv
<1>4. CASE ~p.disturbed
  <2>1. Resting(p) /\ p.sock = None /\ NoSocketOf(i, s)
    BY <1>4 DEF ProviderInv, OneAtWork, Attempting, Waiting, Holding, Engaged,
                EngagedButReconnecting
  <2>2. CASE Refuses(p)
    BY <2>2 DEF Connects
  <2>3. CASE ~Refuses(p)
    <3>1. Attempting(q)
      BY <2>1, <2>3, ConnectsOnce DEF Resting
    <3> QED BY <1>1, <1>2, <2>1, <3>1 DEF ProviderInv, OneAtWork
  <2> QED BY <2>2, <2>3
<1> QED BY <1>3, <1>4

\* Registering the callbacks changes nothing the invariant is about.
LEMMA RegistersKeeps ==
    ASSUME NEW i \in Providers, NEW p \in Provider, NEW s, NEW q,
           q = p \/ q = [p EXCEPT !.callbacks = TRUE]
    PROVE  /\ q \in Provider /\ q.status = p.status /\ q.disturbed = p.disturbed
           /\ q.sock = p.sock
           /\ ProviderInv(i, p, s) => ProviderInv(i, q, s)
<1>1. /\ q \in Provider /\ q.status = p.status /\ q.disturbed = p.disturbed
      /\ q.sock = p.sock /\ q.calls = p.calls /\ q.timers = p.timers
  BY DEF Provider
<1> QED BY <1>1 DEF ProviderInv, RefersToItsOwn, OneAtWork, Resting, Attempting, Waiting,
                    Holding, NoCall, OneCall

-----------------------------------------------------------------------------
(* Steps of one provider *)

\* A step of the provider i that makes it p, and that makes, closes or ends no socket
\* but one of its own.
LEMMA OneProviderChanges ==
    ASSUME SessionInv, NEW i \in Providers, NEW p \in Provider, Becomes(i, p),
           SocketsOK(sock)', ProcessOK',
           \A k \in Sockets : sock'[k] # sock[k] =>
               sock[k].owner \in {i, None} /\ sock'[k].owner \in {i, None},
           ProviderInv(i, p, sock')
    PROVE  SessionInv'
<1>1. prov' \in [Providers -> Provider] /\ prov'[i] = p
  BY DEF SessionInv, Becomes
<1>2. ASSUME NEW j \in Providers PROVE ProviderInv(j, prov[j], sock)'
  <2>1. CASE j = i
    BY <1>1, <2>1
  <2>2. CASE j # i
    <3>1. prov'[j] = prov[j] /\ ProviderInv(j, prov[j], sock) /\ prov[j] \in Provider
      BY <2>2 DEF SessionInv, Becomes
    <3>2. \A k \in Sockets : sock[k].owner = j \/ sock'[k].owner = j => sock'[k] = sock[k]
      BY <2>2, NoneIsNoObject
    <3>3. RefersToItsOwn(j, prov'[j], sock')
      BY <3>1, <3>2 DEF ProviderInv, RefersToItsOwn, Provider
    <3>4. NoSocketOf(j, sock) => NoSocketOf(j, sock')
      BY <3>2 DEF NoSocketOf
    <3>5. Holding(j, prov[j], sock) => Holding(j, prov'[j], sock')
      BY <3>1, <3>2 DEF Holding, ProviderInv, RefersToItsOwn, Provider
    <3>6. OneAtWork(j, prov[j], sock) => OneAtWork(j, prov'[j], sock')
      BY <3>1, <3>4, <3>5 DEF OneAtWork
    <3> QED BY <3>1, <3>3, <3>6 DEF ProviderInv
  <2> QED BY <2>1, <2>2
<1> QED BY <1>1, <1>2 DEF SessionInv
-----------------------------------------------------------------------------
(* What administrators ask for *)

\* What the counters of the run leave alone.
LEMMA RequestIsTyped ==
    ASSUME SessionInv, Request
    PROVE  requests' \in Nat /\ booted' \in BOOLEAN /\ creds' \in BOOLEAN
           /\ db' \in BOOLEAN /\ crashes' \in Nat
  BY DEF SessionInv, ProcessOK, Request

\* The manager holds the provider i, which is p, and its map is right.
LEMMA ManagerConnectsOnce ==
    ASSUME SessionInv, NEW i \in Providers, NEW p \in Provider, ManagerConnects(i, p),
           ProviderInv(i, p, sock), UNCHANGED sock,
           current' \in Providers \cup {None}, loading' \in Nat, requests' \in Nat,
           booted' \in BOOLEAN, creds' \in BOOLEAN, db' \in BOOLEAN, crashes' \in Nat
    PROVE  SessionInv'
<1>1. SocketsOK(sock)' /\ registered \in BOOLEAN /\ writes \subseteq BOOLEAN
  BY DEF SessionInv, SocketsOK, ProcessOK
<1>2. CASE p.status \in Engaged
  <2>1. Becomes(i, p) /\ UNCHANGED <<registered, writes>>
    BY <1>2 DEF ManagerConnects
  <2>2. ProcessOK'
    BY <1>1, <2>1 DEF ProcessOK
  <2> QED BY <1>1, <2>1, <2>2, OneProviderChanges
<1>3. CASE p.status \notin Engaged
  <2> DEFINE q == Registers(p)
             r == Connects(q, "manager")
  <2>1. Becomes(i, r) /\ Reports(q, Heard(q, "manager"), IF Refuses(q) THEN {q.status} ELSE {})
        /\ registered' = TRUE
    BY <1>3 DEF ManagerConnects
  <2>2. q = p \/ q = [p EXCEPT !.callbacks = TRUE]
    BY DEF Registers
  <2> HIDE DEF q
  <2>3. q \in Provider /\ q.status = p.status /\ ProviderInv(i, q, sock)
    BY <2>2, RegistersKeeps
  <2>4. "manager" \in Callers
    BY DEF Callers
  <2>5. r \in Provider /\ ProviderInv(i, r, sock)
    BY <1>3, <2>3, <2>4, ConnectsIsTyped, ConnectsKeepsOneAtWork
  <2> HIDE DEF r
  <2>6. writes' \subseteq BOOLEAN
    BY <1>1, <2>1, ReportsAreTyped
  <2>7. ProcessOK'
    BY <2>1, <2>6 DEF ProcessOK
  <2> QED BY <1>1, <2>1, <2>5, <2>7, OneProviderChanges
<1> QED BY <1>2, <1>3

\* Nothing the invariant is about changes but typed counters.
LEMMA ObjectsUntouched ==
    ASSUME SessionInv, ProcessOK', UNCHANGED <<prov, sock>> PROVE SessionInv'
  BY DEF SessionInv, SocketsOK

LEMMA ConnectKeeps == SessionInv /\ Connect => SessionInv'
<1> SUFFICES ASSUME SessionInv, Connect PROVE SessionInv'
  OBVIOUS
<1>1. Request /\ UNCHANGED <<sock, current>>
  BY DEF Connect
<1>2. ProcessOK /\ prov \in [Providers -> Provider]
  BY DEF SessionInv
<1>3. CASE current = None
  <2>1. loading' = loading + 1 /\ UNCHANGED <<prov, registered, writes>>
    BY <1>3 DEF Connect
  <2>2. ProcessOK'
    BY <1>1, <1>2, <2>1, RequestIsTyped DEF ProcessOK
  <2> QED BY <1>1, <2>1, <2>2, ObjectsUntouched
<1>4. CASE current # None
  <2>1. ManagerConnects(current, prov[current]) /\ UNCHANGED loading
    BY <1>4 DEF Connect
  <2>2. current \in Providers /\ prov[current] \in Provider
        /\ ProviderInv(current, prov[current], sock) /\ loading \in Nat
    BY <1>2, <1>4 DEF SessionInv, ProcessOK
  <2> QED BY <1>1, <2>1, <2>2, RequestIsTyped, ManagerConnectsOnce
<1> QED BY <1>3, <1>4

LEMMA LoadedKeeps == SessionInv /\ Loaded => SessionInv'
<1> SUFFICES ASSUME SessionInv, Loaded PROVE SessionInv'
  OBVIOUS
<1>1. PICK i \in Providers :
          Gone(i) /\ current' = i /\ ManagerConnects(i, NewProvider)
  BY DEF Loaded
<1>2. ProviderInv(i, NewProvider, sock)
  BY <1>1, GoneOwnsNothing, NewProviderRests
<1>3. ProcessOK /\ loading > 0 /\ loading' = loading - 1
      /\ UNCHANGED <<sock, booted, creds, db, requests, crashes>>
  BY DEF Loaded, SessionInv
<1>4. loading' \in Nat /\ booted' \in BOOLEAN /\ creds' \in BOOLEAN /\ db' \in BOOLEAN
      /\ requests' \in Nat /\ crashes' \in Nat
  BY <1>3 DEF ProcessOK
<1> QED BY <1>1, <1>2, <1>3, <1>4, NewProviderIsTyped, ManagerConnectsOnce

\* end() touches the one socket its provider refers to.
LEMMA EndsItsOwn ==
    ASSUME SessionInv, NEW i \in Providers, sock' = Ends(prov[i])
    PROVE  /\ SocketsOK(sock)'
           /\ \A k \in Sockets : sock'[k] # sock[k] =>
                  sock[k].owner \in {i, None} /\ sock'[k].owner \in {i, None}
<1> DEFINE l == prov[i].sock
<1>1. SocketsOK(sock) /\ l \in Sockets \cup {None} /\ (l # None => sock[l].owner = i)
  BY DEF SessionInv, ProviderInv, RefersToItsOwn, Provider
<1>2. CASE l = None
  BY <1>1, <1>2 DEF Ends, SocketsOK
<1>3. CASE l # None
  <2>1. l \in Sockets /\ sock[l].owner = i /\ sock' = [sock EXCEPT ![l].state = "ended"]
    BY <1>1, <1>3 DEF Ends
  <2>2. sock'[l] = [sock[l] EXCEPT !.state = "ended"] /\ sock[l] \in Socket
    BY <1>1, <2>1 DEF SocketsOK
  <2>3. sock'[l] \in Socket /\ sock'[l].owner = i
    BY <2>1, <2>2 DEF Socket
  <2>4. sock' \in [Sockets -> Socket] /\ \A k \in Sockets \ {l} : sock'[k] = sock[k]
    BY <1>1, <2>1, <2>3 DEF SocketsOK
  <2> QED BY <1>1, <2>1, <2>3, <2>4 DEF SocketsOK
<1> QED BY <1>2, <1>3

\* What disconnect, refreshQr and forceReconnect leave of an object before they go on.
LEMMA DisturbedIsTyped ==
    ASSUME NEW p \in Provider,
           NEW q \in {Disconnected(p), [Disconnected(p) EXCEPT !.callbacks = TRUE],
                      [p EXCEPT !.sock = None, !.inProgress = FALSE, !.attempts = 0,
                                !.disturbed = TRUE]}
    PROVE  q \in Provider /\ q.disturbed /\ q.sock = None
<1>1. 0 \in 0 .. MaxAttempts /\ "DISCONNECTED" \in Status
  BY ObjectsAssumption DEF Status
<1>2. CASE q = Disconnected(p)
  BY <1>1, <1>2 DEF Disconnected, Provider
<1>3. CASE q = [Disconnected(p) EXCEPT !.callbacks = TRUE]
  BY <1>1, <1>3 DEF Disconnected, Provider
<1>4. CASE q = [p EXCEPT !.sock = None, !.inProgress = FALSE, !.attempts = 0,
                         !.disturbed = TRUE]
  BY <1>1, <1>4 DEF Provider
<1> QED BY <1>2, <1>3, <1>4

\* An object of which a method has ended the socket, and what is done to it then.
LEMMA DisturbedKeeps ==
    ASSUME SessionInv, NEW i \in Providers, NEW q \in Provider, Becomes(i, q),
           q.disturbed, q.sock = None, sock' = Ends(prov[i]), ProcessOK'
    PROVE  SessionInv'
<1>1. ProviderInv(i, q, sock')
  BY DEF ProviderInv, RefersToItsOwn
<1> QED BY <1>1, EndsItsOwn, OneProviderChanges

LEMMA DisconnectKeeps == SessionInv /\ Disconnect => SessionInv'
<1> SUFFICES ASSUME SessionInv, Disconnect PROVE SessionInv'
  OBVIOUS
<1>1. Request /\ UNCHANGED loading /\ ProcessOK /\ prov \in [Providers -> Provider]
  BY DEF Disconnect, SessionInv
<1>2. CASE current = None
  <2>1. writes' = writes \cup {Restored("DISCONNECTED")}
        /\ UNCHANGED <<prov, sock, current, registered>>
    BY <1>2 DEF Disconnect
  <2>2. Restored("DISCONNECTED") \in BOOLEAN
    BY DEF Restored
  <2>3. ProcessOK'
    BY <1>1, <2>1, <2>2, RequestIsTyped DEF ProcessOK
  <2> QED BY <2>1, <2>3, ObjectsUntouched
<1>3. CASE current # None
  <2> DEFINE p == prov[current]
             q == Disconnected(p)
  <2>1. /\ sock' = Ends(p) /\ Becomes(current, q)
        /\ Reports(p, {"DISCONNECTED"}, {"DISCONNECTED"})
        /\ current' = None /\ registered' = FALSE
    BY <1>3 DEF Disconnect
  <2>2. current \in Providers /\ p \in Provider
    BY <1>1, <1>3 DEF ProcessOK
  <2>3. q \in Provider /\ q.disturbed /\ q.sock = None
    BY <2>2, DisturbedIsTyped
  <2>4. ProcessOK'
    BY <1>1, <2>1, RequestIsTyped, ReportsAreTyped DEF ProcessOK
  <2> QED BY <2>1, <2>2, <2>3, <2>4, DisturbedKeeps
<1> QED BY <1>2, <1>3

LEMMA RefreshQrKeeps == SessionInv /\ RefreshQr => SessionInv'
<1> SUFFICES ASSUME SessionInv, RefreshQr PROVE SessionInv'
  OBVIOUS
<1> DEFINE p == prov[current]
           q == [p EXCEPT !.sock = None, !.inProgress = FALSE, !.attempts = 0,
                          !.disturbed = TRUE]
           r == Connects(q, "manager")
<1>1. /\ current # None /\ Request /\ sock' = Ends(p) /\ Becomes(current, r)
      /\ Reports(p, {"CONNECTING"}, {}) /\ UNCHANGED <<current, registered, loading>>
  BY DEF RefreshQr
<1>2. current \in Providers /\ p \in Provider /\ ProcessOK
  BY <1>1 DEF SessionInv, ProcessOK
<1>3. q \in Provider /\ q.disturbed /\ q.sock = None
  BY <1>2, DisturbedIsTyped
<1>4. r \in Provider /\ r.disturbed /\ r.sock = None
  BY <1>3, ConnectsIsTyped DEF Callers
<1>5. ProcessOK'
  BY <1>1, <1>2, RequestIsTyped, ReportsAreTyped DEF ProcessOK
<1> HIDE DEF r
<1> QED BY <1>1, <1>2, <1>4, <1>5, DisturbedKeeps

LEMMA ForceReconnectKeeps == SessionInv /\ ForceReconnect => SessionInv'
<1> SUFFICES ASSUME SessionInv, ForceReconnect PROVE SessionInv'
  OBVIOUS
<1> DEFINE p == prov[current]
           q == [Disconnected(p) EXCEPT !.callbacks = TRUE]
           r == Connects(q, "manager")
<1>1. /\ current # None /\ Request /\ sock' = Ends(p) /\ Becomes(current, r)
      /\ Reports(p, {"DISCONNECTED"}, {"CONNECTING"}) /\ registered' = TRUE
      /\ UNCHANGED <<current, loading>>
  BY DEF ForceReconnect
<1>2. current \in Providers /\ p \in Provider /\ ProcessOK
  BY <1>1 DEF SessionInv, ProcessOK
<1>3. q \in Provider /\ q.disturbed /\ q.sock = None
  BY <1>2, DisturbedIsTyped
<1>4. r \in Provider /\ r.disturbed /\ r.sock = None
  BY <1>3, ConnectsIsTyped DEF Callers
<1>5. ProcessOK'
  BY <1>1, <1>2, RequestIsTyped, ReportsAreTyped DEF ProcessOK
<1> HIDE DEF r
<1> QED BY <1>1, <1>2, <1>4, <1>5, DisturbedKeeps
-----------------------------------------------------------------------------
(* What calls, sockets and timers answer *)

\* A step of the library or of a call leaves these as they are.
LEMMA ProcessUntouched ==
    ASSUME SessionInv, NEW p, NEW heard, NEW own, Reports(p, heard, own), creds' \in BOOLEAN,
           UNCHANGED <<current, registered, loading, booted, db, requests, crashes>>
    PROVE  ProcessOK'
  BY ReportsAreTyped DEF SessionInv, ProcessOK

\* One call less.
LEMMA CallEnds ==
    ASSUME NEW p \in Provider, NEW c \in Callers, p.calls[c] > 0
    PROVE  /\ [p.calls EXCEPT ![c] = @ - 1] \in [Callers -> Nat]
           /\ OneCall(p) => \A d \in Callers : [p.calls EXCEPT ![c] = @ - 1][d] = 0
  BY DEF Provider, OneCall

LEMMA SocketMadeKeeps ==
    ASSUME SessionInv, NEW i \in Providers, NEW c \in Callers, SocketMade(i, c)
    PROVE  SessionInv'
<1> DEFINE p == prov[i]
<1>1. PICK k \in Sockets :
          /\ sock[k] = NoSocket
          /\ sock' = [sock EXCEPT ![k] = [state |-> "new", owner |-> i]]
          /\ Becomes(i, [p EXCEPT !.sock = k, !.calls[c] = @ - 1])
  BY DEF SocketMade
<1> DEFINE q == [p EXCEPT !.sock = k, !.calls = [p.calls EXCEPT ![c] = @ - 1]]
<1>2. /\ p.calls[c] > 0 /\ Reports(p, {}, IF c = "manager" THEN {p.status} ELSE {})
      /\ UNCHANGED <<current, registered, loading, booted, creds, db, requests, crashes>>
  BY DEF SocketMade
<1>3. p \in Provider /\ SocketsOK(sock) /\ ProviderInv(i, p, sock) /\ creds \in BOOLEAN
  BY DEF SessionInv, ProcessOK
<1>4. Becomes(i, q)
  BY <1>1, <1>3 DEF Becomes, Provider
<1>5. q \in Provider /\ q.sock = k /\ q.status = p.status /\ q.timers = p.timers
      /\ q.disturbed = p.disturbed /\ q.calls = [p.calls EXCEPT ![c] = @ - 1]
  BY <1>2, <1>3, CallEnds DEF Provider
<1>6. sock' \in [Sockets -> Socket] /\ sock'[k] = [state |-> "new", owner |-> i]
      /\ \A l \in Sockets \ {k} : sock'[l] = sock[l]
  BY <1>1, <1>3 DEF SocketsOK, Socket
<1>7. SocketsOK(sock)'
  BY <1>3, <1>6 DEF SocketsOK
<1>8. RefersToItsOwn(i, q, sock')
  BY <1>5, <1>6 DEF RefersToItsOwn
<1>9. ASSUME ~p.disturbed PROVE Holding(i, q, sock')
  <2>1. Attempting(p) /\ NoSocketOf(i, sock)
    BY <1>2, <1>3, <1>9 DEF ProviderInv, OneAtWork, Resting, Waiting, Holding, NoCall
  <2>2. NoCall(q)
    BY <1>2, <1>3, <1>5, <2>1, CallEnds DEF Attempting, NoCall
  <2>3. q.sock # None /\ sock'[q.sock].state = "new"
    BY <1>5, <1>6, NoneIsNoObject
  <2>4. \A l \in Sockets : sock'[l].owner = i => l = k
    BY <1>6, <2>1 DEF NoSocketOf
  <2> QED BY <1>5, <2>1, <2>2, <2>3, <2>4 DEF Holding, Attempting, EngagedButReconnecting
<1>10. ProviderInv(i, q, sock')
  BY <1>5, <1>8, <1>9 DEF ProviderInv, OneAtWork
<1>11. \A l \in Sockets : sock'[l] # sock[l] =>
           sock[l].owner \in {i, None} /\ sock'[l].owner \in {i, None}
  BY <1>1, <1>6 DEF NoSocket
<1>12. ProcessOK'
  BY <1>2, <1>3, ProcessUntouched
<1> QED BY <1>4, <1>5, <1>7, <1>10, <1>11, <1>12, OneProviderChanges

LEMMA ConnectFailsKeeps ==
    ASSUME SessionInv, NEW i \in Providers, NEW c \in Callers, ConnectFails(i, c)
    PROVE  SessionInv'
<1> DEFINE p == prov[i]
           q == [p EXCEPT !.status = "ERROR", !.sock = None, !.inProgress = FALSE,
                          !.calls = [p.calls EXCEPT ![c] = @ - 1]]
<1>1. p \in Provider /\ SocketsOK(sock) /\ ProviderInv(i, p, sock) /\ creds \in BOOLEAN
  BY DEF SessionInv, ProcessOK
<1>2. p.calls[c] > 0 /\ Becomes(i, q)
      /\ UNCHANGED <<sock, current, registered, loading, booted, creds, db, requests, crashes>>
  BY <1>1 DEF ConnectFails, Becomes, Provider
<1>3. PICK own : Reports(p, {"ERROR"}, own)
  BY DEF ConnectFails
<1>4. q \in Provider /\ q.sock = None /\ q.status = "ERROR" /\ q.timers = p.timers
      /\ q.disturbed = p.disturbed /\ q.calls = [p.calls EXCEPT ![c] = @ - 1]
  BY <1>1, <1>2, CallEnds DEF Provider, Status
<1>5. ASSUME ~p.disturbed PROVE Resting(q) /\ NoSocketOf(i, sock)
  <2>1. Attempting(p) /\ NoSocketOf(i, sock)
    BY <1>1, <1>2, <1>5 DEF ProviderInv, OneAtWork, Resting, Waiting, Holding, NoCall
  <2>2. NoCall(q)
    BY <1>1, <1>2, <1>4, <2>1, CallEnds DEF Attempting, NoCall
  <2> QED BY <1>4, <2>1, <2>2 DEF Attempting, Resting
<1>6. ProviderInv(i, q, sock')
  BY <1>2, <1>4, <1>5 DEF ProviderInv, RefersToItsOwn, OneAtWork
<1>7. SocketsOK(sock)' /\ ProcessOK'
  BY <1>1, <1>2, <1>3, ProcessUntouched DEF SocketsOK
<1> QED BY <1>2, <1>4, <1>6, <1>7, OneProviderChanges

LEMMA TimerFiresKeeps ==
    ASSUME SessionInv, NEW i \in Providers, TimerFires(i)
    PROVE  SessionInv'
<1> DEFINE p == [prov[i] EXCEPT !.timers = @ - 1, !.inProgress = FALSE]
           q == Connects(p, "timer")
<1>1. prov[i] \in Provider /\ SocketsOK(sock) /\ ProviderInv(i, prov[i], sock)
      /\ creds \in BOOLEAN
  BY DEF SessionInv, ProcessOK
<1>2. prov[i].timers > 0 /\ Becomes(i, q) /\ Reports(p, Heard(p, "timer"), {})
      /\ UNCHANGED <<sock, current, registered, loading, booted, creds, db, requests, crashes>>
  BY DEF TimerFires
<1>3. /\ p \in Provider /\ p.sock = prov[i].sock /\ p.timers = prov[i].timers - 1
      /\ p.disturbed = prov[i].disturbed /\ p.calls = prov[i].calls /\ ~p.inProgress
  <2> DEFINE left == prov[i].timers - 1
  <2>1. left \in Nat /\ p = [prov[i] EXCEPT !.timers = left, !.inProgress = FALSE]
    BY <1>1, <1>2 DEF Provider
  <2> HIDE DEF left
  <2>2. p.timers = left
    BY <1>1, <2>1 DEF Provider
  <2> QED BY <1>1, <2>1, <2>2 DEF Provider, left
<1> HIDE DEF p
<1>4. "timer" \in Callers
  BY DEF Callers
<1>5. q \in Provider /\ q.sock = p.sock /\ q.disturbed = p.disturbed
  BY <1>3, <1>4, ConnectsIsTyped
<1>6. ASSUME ~p.disturbed PROVE Attempting(q) /\ q.sock = None /\ NoSocketOf(i, sock)
  <2>1. Waiting(prov[i]) /\ p.sock = None /\ NoSocketOf(i, sock)
    BY <1>1, <1>2, <1>3, <1>6 DEF ProviderInv, OneAtWork, Resting, Attempting, Holding
  <2>2. NoCall(p) /\ p.timers = 0 /\ ~Refuses(p)
    BY <1>3, <2>1 DEF Waiting, NoCall, Refuses
  <2> QED BY <1>3, <1>4, <1>5, <2>1, <2>2, ConnectsOnce
<1>7. RefersToItsOwn(i, q, sock)
  BY <1>1, <1>3, <1>5 DEF ProviderInv, RefersToItsOwn
<1> HIDE DEF q
<1>8. ProviderInv(i, q, sock')
  BY <1>2, <1>5, <1>6, <1>7 DEF ProviderInv, OneAtWork
<1>9. SocketsOK(sock)' /\ ProcessOK'
  BY <1>1, <1>2, ProcessUntouched DEF SocketsOK
<1> QED BY <1>2, <1>5, <1>8, <1>9, OneProviderChanges
\* What a socket reports is about the object that owns it, and if only one thing is
\* under way there, it is this socket.
LEMMA ReportIsOfItsOwner ==
    ASSUME SessionInv, NEW k \in Sockets, sock[k].state # "none"
    PROVE  LET i == sock[k].owner
           IN /\ i \in Providers /\ prov[i] \in Provider /\ SocketsOK(sock)
              /\ RefersToItsOwn(i, prov[i], sock) /\ creds \in BOOLEAN
              /\ prov[i].disturbed \/ (Holding(i, prov[i], sock) /\ prov[i].sock = k)
<1> DEFINE i == sock[k].owner
<1>1. i \in Providers /\ SocketsOK(sock) /\ creds \in BOOLEAN
  BY DEF SessionInv, SocketsOK, ProcessOK
<1>2. prov[i] \in Provider /\ ProviderInv(i, prov[i], sock)
  BY <1>1 DEF SessionInv
<1>3. ~prov[i].disturbed => Holding(i, prov[i], sock) /\ prov[i].sock = k
  BY <1>2 DEF ProviderInv, OneAtWork, NoSocketOf, Holding
<1> QED BY <1>1, <1>2, <1>3 DEF ProviderInv

\* A socket that goes on, and its owner with it.
LEMMA SocketGoesOn ==
    ASSUME SessionInv, NEW k \in Sockets, sock[k].state # "none",
           NEW st \in {"qr", "open"}, sock' = [sock EXCEPT ![k].state = st],
           NEW q \in Provider, Becomes(sock[k].owner, q), ProcessOK',
           q.status \in EngagedButReconnecting,
           q.sock = prov[sock[k].owner].sock, q.timers = prov[sock[k].owner].timers,
           q.calls = prov[sock[k].owner].calls,
           q.disturbed = prov[sock[k].owner].disturbed
    PROVE  SessionInv'
<1> DEFINE i == sock[k].owner
           p == prov[i]
<1>1. /\ i \in Providers /\ p \in Provider /\ SocketsOK(sock) /\ RefersToItsOwn(i, p, sock)
      /\ p.disturbed \/ (Holding(i, p, sock) /\ p.sock = k)
  BY ReportIsOfItsOwner
<1>2. sock[k] \in Socket /\ sock'[k] = [sock[k] EXCEPT !.state = st]
  BY <1>1 DEF SocketsOK
<1>3. sock'[k] \in Socket /\ sock'[k].owner = i /\ sock'[k].state = st
  BY <1>2 DEF Socket
<1>4. sock' \in [Sockets -> Socket] /\ \A l \in Sockets \ {k} : sock'[l] = sock[l]
  BY <1>1, <1>3 DEF SocketsOK
<1>5. SocketsOK(sock)'
  BY <1>1, <1>3, <1>4 DEF SocketsOK
<1>6. \A l \in Sockets : sock'[l].owner = sock[l].owner
  BY <1>3, <1>4
<1>7. RefersToItsOwn(i, q, sock')
  BY <1>1, <1>6 DEF RefersToItsOwn, Provider
<1>8. q.disturbed \/ Holding(i, q, sock')
  BY <1>1, <1>3, <1>6 DEF Holding, NoCall
<1>9. ProviderInv(i, q, sock')
  BY <1>7, <1>8 DEF ProviderInv, OneAtWork
<1> QED BY <1>1, <1>3, <1>4, <1>5, <1>9, OneProviderChanges

LEMMA QrShownKeeps ==
    ASSUME SessionInv, NEW k \in Sockets, QrShown(k)
    PROVE  SessionInv'
<1> DEFINE p == prov[sock[k].owner]
           q == [p EXCEPT !.status = "QR_REQUIRED"]
<1>1. /\ sock[k].state = "new" /\ sock' = [sock EXCEPT ![k].state = "qr"]
      /\ Becomes(sock[k].owner, q) /\ Reports(p, {"QR_REQUIRED"}, {})
      /\ UNCHANGED <<current, registered, loading, booted, creds, db, requests, crashes>>
  BY DEF QrShown
<1>2. p \in Provider /\ creds \in BOOLEAN
  BY <1>1, ReportIsOfItsOwner
<1>3. /\ q \in Provider /\ q.status \in EngagedButReconnecting
      /\ q.sock = p.sock /\ q.timers = p.timers /\ q.calls = p.calls
      /\ q.disturbed = p.disturbed
  BY <1>2 DEF Provider, Status, EngagedButReconnecting
<1>4. ProcessOK'
  BY <1>1, <1>2, ProcessUntouched
<1> HIDE DEF q
<1> QED BY <1>1, <1>3, <1>4, SocketGoesOn

LEMMA OpenedKeeps ==
    ASSUME SessionInv, NEW k \in Sockets, Opened(k)
    PROVE  SessionInv'
<1> DEFINE p == prov[sock[k].owner]
           q == [p EXCEPT !.status = "CONNECTED", !.attempts = 0, !.inProgress = FALSE]
<1>1. /\ sock[k].state \in {"new", "qr"} /\ sock' = [sock EXCEPT ![k].state = "open"]
      /\ Becomes(sock[k].owner, q) /\ Reports(p, {"CONNECTED"}, {}) /\ creds' = TRUE
      /\ UNCHANGED <<current, registered, loading, booted, db, requests, crashes>>
  BY DEF Opened
<1>2. p \in Provider
  BY <1>1, ReportIsOfItsOwner
<1>3. 0 \in 0 .. MaxAttempts
  BY ObjectsAssumption
<1>4. /\ q \in Provider /\ q.status \in EngagedButReconnecting
      /\ q.sock = p.sock /\ q.timers = p.timers /\ q.calls = p.calls
      /\ q.disturbed = p.disturbed
  BY <1>2, <1>3 DEF Provider, Status, EngagedButReconnecting
<1>5. ProcessOK'
  BY <1>1, ProcessUntouched
<1> HIDE DEF q
<1> QED BY <1>1, <1>4, <1>5, SocketGoesOn

\* A socket that closes, and its owner rests or waits.
LEMMA SocketCloses ==
    ASSUME SessionInv, NEW k \in Sockets, sock[k].state # "none",
           sock' = [sock EXCEPT ![k] = NoSocket],
           NEW q \in Provider, Becomes(sock[k].owner, q), ProcessOK',
           q.sock = None, q.disturbed = prov[sock[k].owner].disturbed,
           NoCall(prov[sock[k].owner]) /\ prov[sock[k].owner].timers = 0 =>
               Resting(q) \/ Waiting(q)
    PROVE  SessionInv'
<1> DEFINE i == sock[k].owner
           p == prov[i]
<1>1. /\ i \in Providers /\ SocketsOK(sock)
      /\ p.disturbed \/ (Holding(i, p, sock) /\ p.sock = k)
  BY ReportIsOfItsOwner
<1>2. sock'[k] = NoSocket /\ \A l \in Sockets \ {k} : sock'[l] = sock[l]
  BY <1>1 DEF SocketsOK
<1>3. SocketsOK(sock)'
  BY <1>1, <1>2 DEF SocketsOK, Socket, NoSocket
<1>4. p.disturbed \/ (NoSocketOf(i, sock') /\ (Resting(q) \/ Waiting(q)))
  <2>1. CASE p.disturbed
    BY <2>1
  <2>2. CASE Holding(i, p, sock) /\ p.sock = k
    BY <1>1, <1>2, <2>2, NoneIsNoObject DEF Holding, NoSocketOf, NoSocket
  <2> QED BY <1>1, <2>1, <2>2
<1>5. ProviderInv(i, q, sock')
  BY <1>4 DEF ProviderInv, RefersToItsOwn, OneAtWork
<1>6. \A l \in Sockets : sock'[l] # sock[l] =>
          sock[l].owner \in {i, None} /\ sock'[l].owner \in {i, None}
  BY <1>2 DEF NoSocket
<1> QED BY <1>1, <1>3, <1>5, <1>6, OneProviderChanges

LEMMA ClosedForGoodKeeps ==
    ASSUME SessionInv, NEW k \in Sockets, ClosedForGood(k)
    PROVE  SessionInv'
<1> DEFINE p == prov[sock[k].owner]
           q == [p EXCEPT !.status = "DISCONNECTED", !.attempts = 0, !.sock = None,
                          !.inProgress = FALSE]
<1>1. /\ sock[k].state # "none" /\ sock' = [sock EXCEPT ![k] = NoSocket]
      /\ Becomes(sock[k].owner, q) /\ Reports(p, {"DISCONNECTED"}, {}) /\ creds' = FALSE
      /\ UNCHANGED <<current, registered, loading, booted, db, requests, crashes>>
  BY DEF ClosedForGood, Live
<1>2. p \in Provider
  BY <1>1, ReportIsOfItsOwner
<1>3. 0 \in 0 .. MaxAttempts
  BY ObjectsAssumption
<1>4. /\ q \in Provider /\ q.sock = None /\ q.status = "DISCONNECTED"
      /\ q.timers = p.timers /\ q.calls = p.calls /\ q.disturbed = p.disturbed
  BY <1>2, <1>3 DEF Provider, Status
<1>5. ProcessOK'
  BY <1>1, ProcessUntouched
<1> HIDE DEF q
<1>6. NoCall(p) /\ p.timers = 0 => Resting(q)
  BY <1>4 DEF Resting, NoCall
<1> QED BY <1>1, <1>4, <1>5, <1>6, SocketCloses

LEMMA ClosedKeeps ==
    ASSUME SessionInv, NEW k \in Sockets, Closed(k)
    PROVE  SessionInv'
<1> DEFINE i == sock[k].owner
           p == [prov[i] EXCEPT !.sock = None, !.inProgress = FALSE]
<1>1. /\ sock[k].state # "none" /\ sock' = [sock EXCEPT ![k] = NoSocket]
      /\ UNCHANGED <<current, registered, loading, booted, creds, db, requests, crashes>>
  BY DEF Closed
<1>2. prov[i] \in Provider /\ creds \in BOOLEAN
  BY <1>1, ReportIsOfItsOwner
<1>3. /\ p \in Provider /\ p.sock = None /\ p.timers = prov[i].timers
      /\ p.calls = prov[i].calls /\ p.disturbed = prov[i].disturbed
  BY <1>2 DEF Provider
<1>4. CASE MayRetry(p)
  <2> DEFINE n == IF p.attempts < MaxAttempts THEN p.attempts + 1 ELSE p.attempts
             q == [p EXCEPT !.status = "RECONNECTING", !.timers = p.timers + 1,
                            !.attempts = n]
  <2>1. Becomes(i, q) /\ Reports(p, {"RECONNECTING"}, {})
    BY <1>3, <1>4 DEF Closed, Becomes, Provider
  <2>2. n \in 0 .. MaxAttempts /\ p.timers + 1 \in Nat
    <3>1. p.attempts \in 0 .. MaxAttempts /\ p.timers \in Nat /\ MaxAttempts \in Nat
      BY <1>3, ObjectsAssumption DEF Provider
    <3> HIDE DEF p
    <3> QED BY <3>1
  <2> HIDE DEF n, p
  <2>3. /\ q \in Provider /\ q.sock = None /\ q.status = "RECONNECTING"
        /\ q.timers = p.timers + 1 /\ q.calls = p.calls /\ q.disturbed = p.disturbed
    BY <1>3, <2>2 DEF Provider, Status
  <2>4. ProcessOK'
    BY <1>1, <1>2, <2>1, ProcessUntouched
  <2> HIDE DEF q
  <2>5. NoCall(prov[i]) /\ prov[i].timers = 0 => Waiting(q)
    BY <1>3, <2>3 DEF Waiting, NoCall
  <2> QED BY <1>1, <1>3, <2>1, <2>3, <2>4, <2>5, SocketCloses
<1>5. CASE ~MayRetry(p)
  <2> DEFINE q == [p EXCEPT !.status = "ERROR", !.attempts = 0]
  <2>1. Becomes(i, q) /\ Reports(p, {"ERROR"}, {})
    BY <1>5 DEF Closed
  <2>2. 0 \in 0 .. MaxAttempts
    BY ObjectsAssumption
  <2> HIDE DEF p
  <2>3. /\ q \in Provider /\ q.sock = None /\ q.status = "ERROR"
        /\ q.timers = p.timers /\ q.calls = p.calls /\ q.disturbed = p.disturbed
    BY <1>3, <2>2 DEF Provider, Status
  <2>4. ProcessOK'
    BY <1>1, <1>2, <2>1, ProcessUntouched
  <2> HIDE DEF q
  <2>5. NoCall(prov[i]) /\ prov[i].timers = 0 => Resting(q)
    BY <1>3, <2>3 DEF Resting, NoCall
  <2> QED BY <1>1, <1>3, <2>1, <2>3, <2>4, <2>5, SocketCloses
<1> QED BY <1>4, <1>5

-----------------------------------------------------------------------------
(* The row, the process *)

LEMMA WrittenKeeps ==
    ASSUME SessionInv, NEW b \in BOOLEAN, Written(b)
    PROVE  SessionInv'
<1>1. ProcessOK' /\ UNCHANGED <<prov, sock>>
  BY DEF Written, SessionInv, ProcessOK
<1> QED BY <1>1, ObjectsUntouched

\* Init and Crash.
LEMMA NothingAlive ==
    ASSUME prov = [i \in Providers |-> NewProvider], sock = [k \in Sockets |-> NoSocket],
           ProcessOK
    PROVE  SessionInv
<1>1. SocketsOK(sock)
  BY DEF SocketsOK, Socket, NoSocket
<1>2. ASSUME NEW i \in Providers PROVE ProviderInv(i, prov[i], sock)
  <2>1. NoSocketOf(i, sock)
    BY NoneIsNoObject DEF NoSocketOf, NoSocket
  <2> QED BY <2>1, NewProviderRests
<1>3. prov \in [Providers -> Provider]
  BY NewProviderIsTyped
<1> QED BY <1>1, <1>2, <1>3 DEF SessionInv

LEMMA InitEstablishes == Init => SessionInv
<1>1. Init => ProcessOK
  <2>1. Init => loading \in Nat /\ requests \in Nat /\ crashes \in Nat
    BY DEF Init
  <2> QED BY <2>1, Zenon DEF Init, ProcessOK
<1> QED BY <1>1, NothingAlive DEF Init

LEMMA CrashKeeps == SessionInv /\ Crash => SessionInv'
<1> SUFFICES ASSUME SessionInv, Crash PROVE SessionInv'
  OBVIOUS
<1>1. ProcessOK'
  <2>1. /\ ProcessOK /\ crashes' = crashes + 1 /\ loading' = 0 /\ writes' = {}
        /\ current' = None /\ registered' = FALSE /\ booted' = FALSE
        /\ creds' = creds /\ db' = db /\ requests' = requests
    BY DEF Crash, SessionInv
  <2>2. crashes' \in Nat /\ loading' \in Nat /\ requests' \in Nat
    BY <2>1 DEF ProcessOK
  <2> QED BY <2>1, <2>2, Zenon DEF ProcessOK
<1>2. /\ prov' = [i \in Providers |-> NewProvider]
      /\ sock' = [k \in Sockets |-> NoSocket]
  BY DEF Crash
<1>3. SocketsOK(sock)'
  BY <1>2 DEF SocketsOK, Socket, NoSocket
<1>4. ASSUME NEW i \in Providers PROVE ProviderInv(i, prov[i], sock)'
  <2>1. NoSocketOf(i, sock')
    BY <1>2, NoneIsNoObject DEF NoSocketOf, NoSocket
  <2>2. prov'[i] = NewProvider
    BY <1>2
  <2> QED BY <2>1, <2>2, NewProviderRests
<1>5. prov' \in [Providers -> Provider]
  BY <1>2, NewProviderIsTyped
<1> QED BY <1>1, <1>3, <1>4, <1>5 DEF SessionInv

LEMMA RestoreSessionsKeeps == SessionInv /\ RestoreSessions => SessionInv'
<1> SUFFICES ASSUME SessionInv, RestoreSessions PROVE SessionInv'
  OBVIOUS
<1>1. ProcessOK /\ SocketsOK(sock) /\ SocketsOK(sock)'
      /\ booted' = TRUE /\ UNCHANGED <<sock, loading, creds, db, requests, crashes>>
  BY DEF RestoreSessions, SessionInv, SocketsOK
<1>2. CASE ~db
  <2>1. UNCHANGED <<prov, current, registered, writes>>
    BY <1>2 DEF RestoreSessions
  <2> QED BY <1>1, <2>1, ObjectsUntouched DEF ProcessOK
<1>3. CASE db
  <2> DEFINE P(i) == IF current = None THEN NewProvider ELSE prov[i]
             Q(i) == Registers(P(i))
             R(i) == Connects(Q(i), "restore")
             D(i) == [R(i) EXCEPT !.disturbed = @ \/ Q(i).status \in Engaged]
  <2>1. PICK i \in Providers :
            /\ IF current = None THEN Gone(i) ELSE i = current
            /\ current' = i
            /\ IF creds
               THEN /\ Becomes(i, D(i))
                    /\ Reports(Q(i), Heard(Q(i), "restore"), {})
                    /\ registered' = TRUE
               ELSE /\ Becomes(i, P(i)) /\ Reports(P(i), {}, Lost)
                    /\ UNCHANGED registered
    BY <1>3 DEF RestoreSessions
  <2> DEFINE p == P(i)
             q == Q(i)
             r == R(i)
             d == D(i)
  <2>2. p \in Provider /\ ProviderInv(i, p, sock)
    <3>1. CASE current = None
      BY <2>1, <3>1, NewProviderIsTyped, GoneOwnsNothing, NewProviderRests
    <3>2. CASE current # None
      BY <3>2 DEF SessionInv
    <3> QED BY <3>1, <3>2
  <2>3. writes' \subseteq BOOLEAN /\ ProcessOK'
    <3>1. writes' \subseteq BOOLEAN
      BY <1>1, <2>1, ReportsAreTyped DEF ProcessOK
    <3> QED BY <1>1, <2>1, <3>1 DEF ProcessOK
  <2>4. q = p \/ q = [p EXCEPT !.callbacks = TRUE]
    BY DEF Registers
  <2>5. q \in Provider /\ ProviderInv(i, q, sock)
    <3> HIDE DEF P, Q
    <3> QED BY <2>2, <2>4, RegistersKeeps
  <2>6. "restore" \in Callers
    BY DEF Callers
  <2> HIDE DEF P, Q
  <2>7. r \in Provider /\ r.sock = q.sock /\ r.disturbed = q.disturbed
    BY <2>5, <2>6, ConnectsIsTyped
  <2>8. d \in Provider /\ ProviderInv(i, d, sock)
    <3> HIDE DEF R
    <3>1. d \in Provider /\ d.sock = r.sock
      BY <2>7 DEF Provider
    <3>2. CASE q.disturbed \/ q.status \in Engaged
      <4>1. d.disturbed
        BY <2>7, <3>2 DEF Provider
      <4> QED BY <2>5, <2>7, <3>1, <4>1 DEF ProviderInv, RefersToItsOwn
    <3>3. CASE ~q.disturbed /\ q.status \notin Engaged
      <4>1. ProviderInv(i, r, sock)
        BY <2>5, <2>6, <3>3, ConnectsKeepsOneAtWork DEF R
      <4>2. d = r
        BY <2>7, <3>3 DEF Provider
      <4> QED BY <3>1, <4>1, <4>2
    <3> QED BY <3>2, <3>3
  <2>9. CASE creds
    <3> HIDE DEF D
    <3> QED BY <1>1, <2>1, <2>3, <2>8, <2>9, OneProviderChanges
  <2>10. CASE ~creds
    BY <1>1, <2>1, <2>2, <2>3, <2>10, OneProviderChanges
  <2> QED BY <2>9, <2>10
<1> QED BY <1>2, <1>3

-----------------------------------------------------------------------------
(* Every step *)

LEMMA NextKeeps == SessionInv /\ [Next]_vars => SessionInv'
<1> SUFFICES ASSUME SessionInv, [Next]_vars PROVE SessionInv'
  OBVIOUS
<1>1. CASE Administrator
  BY <1>1, ConnectKeeps, DisconnectKeeps, RefreshQrKeeps, ForceReconnectKeeps
     DEF Administrator
<1>2. CASE Loaded \/ RestoreSessions \/ Crash
  BY <1>2, LoadedKeeps, RestoreSessionsKeeps, CrashKeeps
<1>3. ASSUME NEW i \in Providers, TimerFires(i) PROVE SessionInv'
  BY <1>3, TimerFiresKeeps
<1>4. ASSUME NEW i \in Providers, NEW c \in Callers, CallReturns(i, c) PROVE SessionInv'
  BY <1>4, SocketMadeKeeps, ConnectFailsKeeps DEF CallReturns
<1>5. ASSUME NEW k \in Sockets, QrShown(k) \/ SocketAnswers(k) PROVE SessionInv'
  BY <1>5, QrShownKeeps, OpenedKeeps, ClosedForGoodKeeps, ClosedKeeps DEF SocketAnswers
<1>6. ASSUME NEW b \in BOOLEAN, Written(b) PROVE SessionInv'
  BY <1>6, WrittenKeeps
<1>7. CASE UNCHANGED vars
  <2>1. ProcessOK' /\ UNCHANGED <<prov, sock>>
    BY <1>7 DEF vars, memory, SessionInv, ProcessOK
  <2> QED BY <2>1, ObjectsUntouched
<1> QED BY <1>1, <1>2, <1>3, <1>4, <1>5, <1>6, <1>7 DEF Next

\* The inductive invariant: every provider no method has disturbed rests, makes one
\* attempt, holds one socket or waits for one timer, and refers to no socket but its
\* own (connect, handleConnectionUpdate and scheduleReconnect of the provider).
THEOREM SessionKept == Spec => []SessionInv
  BY InitEstablishes, NextKeeps, PTL DEF Spec

\* For any number of objects, sockets, attempts, requests and crashes: at most one
\* attempt, socket or timer of a provider, that the manager's look at its status and
\* the provider's own inProgress and sock are there to keep apart.
THEOREM OneThingPerProvider == Spec => []OneThingUnderWay
  BY SessionKept, InvImpliesOneThing, PTL
=============================================================================
