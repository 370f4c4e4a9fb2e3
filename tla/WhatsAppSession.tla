-------------------------- MODULE WhatsAppSession --------------------------
(***************************************************************************)
(* The WhatsApp session of one restaurant in the process that owns it: the  *)
(* session manager and its map, the provider objects, the sockets the       *)
(* library gives them, and the row that records the status.  The process    *)
(* may stop at any moment and start again.                                 *)
(*                                                                         *)
(* JavaScript runs one piece of a method between two awaits: such a piece   *)
(* is a step.  A provider that has left the map lives on while it has a     *)
(* socket, a timer or a call that waits.                                   *)
(***************************************************************************)
EXTENDS Integers, FiniteSets

CONSTANTS
    Providers, Sockets,   \* objects that can exist at a time: ranges 1..n
    MaxAttempts,          \* maxReconnectAttempts
    Restores,             \* whether the process calls restoreSessions when it starts
    MaxRequests,          \* what administrators ask for
    MaxCrashes,
    None

ASSUME ObjectsAssumption ==
    /\ Providers \subseteq Nat /\ Sockets \subseteq Nat /\ None \notin Nat
    /\ MaxAttempts \in Nat /\ Restores \in BOOLEAN
    /\ MaxRequests \in Nat /\ MaxCrashes \in Nat

VARIABLES
    prov,         \* the provider objects
    sock,         \* the sockets of the library
    current,      \* sessions.get(restaurantId)
    registered,   \* callbackRegistered.has(restaurantId)
    loading,      \* connect calls that wait for the provider's class
    booted,       \* whether the process has got past its start
    creds,        \* whether credential files are on disk
    db,           \* whether the status in the row is one that is restored
    writes,       \* the same of the writes under way; they land in any order
    requests, crashes

memory == <<prov, sock, current, registered, loading, writes>>
vars == <<memory, booted, creds, db, requests, crashes>>

Status == {"CONNECTED", "CONNECTING", "QR_REQUIRED", "RECONNECTING",
           "ERROR", "DISCONNECTED"}

EngagedButReconnecting == {"CONNECTED", "CONNECTING", "QR_REQUIRED"}

\* Statuses in which connect() of the manager does nothing.
Engaged == {"CONNECTED", "CONNECTING", "QR_REQUIRED", "RECONNECTING"}

\* Statuses that restoreSessions looks for.
Restorable == {"CONNECTED", "RECONNECTING", "QR_REQUIRED"}

\* Who waits for a connect() of the provider.
Callers == {"manager", "timer", "restore"}

Provider ==
    [status : Status, sock : Sockets \cup {None}, inProgress : BOOLEAN,
     attempts : 0 .. MaxAttempts, timers : Nat, calls : [Callers -> Nat],
     callbacks : BOOLEAN, disturbed : BOOLEAN]

\* disturbed is ours: a method that ends a socket was called on the object, or
\* restoreSessions came upon it at work.
NewProvider ==
    [status |-> "DISCONNECTED", sock |-> None, inProgress |-> FALSE, attempts |-> 0,
     timers |-> 0, calls |-> [c \in Callers |-> 0], callbacks |-> FALSE, disturbed |-> FALSE]

Socket == [state : {"none", "new", "qr", "open", "ended"}, owner : Providers \cup {None}]

NoSocket == [state |-> "none", owner |-> None]

Live(k) == sock[k].state \in {"new", "qr", "open"}

SocketsOf(i) == {k \in Sockets : sock[k].owner = i /\ Live(k)}

CallsOf(i) == prov[i].calls["manager"] + prov[i].calls["timer"] + prov[i].calls["restore"]

\* An object nothing refers to.
Gone(i) ==
    /\ i # current /\ prov[i].timers = 0 /\ CallsOf(i) = 0
    /\ \A k \in Sockets : sock[k].owner # i

-----------------------------------------------------------------------------
(* Reports of a status *)

Restored(st) == st \in Restorable

\* setStatus, when the manager listens to the provider, and what the manager
\* writes itself.
Reports(p, heard, own) ==
    writes' = writes \cup
        {Restored(st) : st \in own \cup (IF p.callbacks THEN heard ELSE {})}

Becomes(i, p) == prov' = [prov EXCEPT ![i] = p]

-----------------------------------------------------------------------------
(* connect *)

\* The first piece of the provider's connect(); it returns at once when there is
\* an attempt or a socket.
ConnectsUnguarded(p, caller) ==
    [p EXCEPT !.inProgress = TRUE, !.status = "CONNECTING", !.calls[caller] = @ + 1]

Refuses(p) == p.inProgress \/ p.sock # None

Connects(p, caller) ==
    IF Refuses(p) THEN p ELSE ConnectsUnguarded(p, caller)

Registers(p) == IF registered THEN p ELSE [p EXCEPT !.callbacks = TRUE]

Heard(p, caller) == IF Refuses(p) THEN {} ELSE {"CONNECTING"}

\* connect() of the manager, once it holds the provider.
ManagerConnects(i, p) ==
    IF p.status \in Engaged
    THEN /\ Becomes(i, p)
         /\ UNCHANGED <<registered, writes>>
    ELSE LET q == Registers(p)
         IN /\ Becomes(i, Connects(q, "manager"))
            /\ Reports(q, Heard(q, "manager"), IF Refuses(q) THEN {q.status} ELSE {})
            /\ registered' = TRUE

Request == /\ requests < MaxRequests
           /\ requests' = requests + 1
           /\ UNCHANGED <<booted, creds, db, crashes>>

Connect ==
    /\ Request
    /\ IF current = None
       THEN /\ loading' = loading + 1
            /\ UNCHANGED <<prov, registered, writes>>
       ELSE /\ ManagerConnects(current, prov[current])
            /\ UNCHANGED loading
    /\ UNCHANGED <<sock, current>>

\* The class has been loaded: the call makes a provider, even if another call has
\* made one in the meantime.
Loaded ==
    /\ loading > 0
    /\ \E i \in Providers :
         /\ Gone(i) /\ \A j \in Providers : Gone(j) => i <= j
         /\ current' = i
         /\ ManagerConnects(i, NewProvider)
    /\ loading' = loading - 1
    /\ UNCHANGED <<sock, booted, creds, db, requests, crashes>>

\* The last piece of connect(): the socket is there, or an error is thrown.
SocketMade(i, caller) ==
    LET p == prov[i]
    IN /\ p.calls[caller] > 0
       /\ \E k \in Sockets :
            /\ sock[k] = NoSocket /\ \A l \in Sockets : sock[l] = NoSocket => k <= l
            /\ sock' = [sock EXCEPT ![k] = [state |-> "new", owner |-> i]]
            /\ Becomes(i, [p EXCEPT !.sock = k, !.calls[caller] = @ - 1])
       /\ Reports(p, {}, IF caller = "manager" THEN {p.status} ELSE {})
       /\ UNCHANGED <<current, registered, loading, booted, creds, db, requests, crashes>>

ConnectFails(i, caller) ==
    LET p == prov[i]
    IN /\ p.calls[caller] > 0
       /\ Becomes(i, [p EXCEPT !.status = "ERROR", !.sock = None, !.inProgress = FALSE,
                               !.calls[caller] = @ - 1])
       /\ Reports(p, {"ERROR"}, CASE caller = "manager" -> {"ERROR"}
                                  [] caller = "restore" -> {"DISCONNECTED"}
                                  [] caller = "timer" -> {})
       /\ UNCHANGED <<sock, current, registered, loading, booted, creds, db,
                      requests, crashes>>

-----------------------------------------------------------------------------
(* disconnect, refreshQr, forceReconnect *)

Ends(p) == IF p.sock = None THEN sock ELSE [sock EXCEPT ![p.sock].state = "ended"]

Disconnected(p) ==
    [p EXCEPT !.attempts = 0, !.inProgress = FALSE, !.sock = None,
              !.status = "DISCONNECTED", !.disturbed = TRUE]

Disconnect ==
    /\ Request
    /\ IF current = None
       THEN /\ writes' = writes \cup {Restored("DISCONNECTED")}
            /\ UNCHANGED <<prov, sock, current, registered>>
       ELSE /\ sock' = Ends(prov[current])
            /\ Becomes(current, Disconnected(prov[current]))
            /\ Reports(prov[current], {"DISCONNECTED"}, {"DISCONNECTED"})
            /\ current' = None /\ registered' = FALSE
    /\ UNCHANGED loading

RefreshQr ==
    /\ current # None
    /\ prov[current].status \in {"QR_REQUIRED", "CONNECTING"}
    /\ Request
    /\ LET p == prov[current]
           q == [p EXCEPT !.sock = None, !.inProgress = FALSE, !.attempts = 0,
                          !.disturbed = TRUE]
       IN /\ sock' = Ends(p)
          /\ Becomes(current, Connects(q, "manager"))
          /\ Reports(p, {"CONNECTING"}, {})
    /\ UNCHANGED <<current, registered, loading>>

\* The callbacks are registered again.
ForceReconnect ==
    /\ current # None
    /\ Request
    /\ LET p == prov[current]
           q == [Disconnected(p) EXCEPT !.callbacks = TRUE]
       IN /\ sock' = Ends(p)
          /\ Becomes(current, Connects(q, "manager"))
          /\ Reports(p, {"DISCONNECTED"}, {"CONNECTING"})
          /\ registered' = TRUE
    /\ UNCHANGED <<current, loading>>

-----------------------------------------------------------------------------
(* What the library reports; the handler serves whatever socket it comes from *)

QrShown(k) ==
    LET i == sock[k].owner
    IN /\ sock[k].state = "new"
       /\ sock' = [sock EXCEPT ![k].state = "qr"]
       /\ Becomes(i, [prov[i] EXCEPT !.status = "QR_REQUIRED"])
       /\ Reports(prov[i], {"QR_REQUIRED"}, {})
       /\ UNCHANGED <<current, registered, loading, booted, creds, db, requests, crashes>>

Opened(k) ==
    LET i == sock[k].owner
    IN /\ sock[k].state \in {"new", "qr"}
       /\ sock' = [sock EXCEPT ![k].state = "open"]
       /\ Becomes(i, [prov[i] EXCEPT !.status = "CONNECTED", !.attempts = 0,
                                     !.inProgress = FALSE])
       /\ Reports(prov[i], {"CONNECTED"}, {})
       /\ creds' = TRUE
       /\ UNCHANGED <<current, registered, loading, booted, db, requests, crashes>>

\* loggedOut, badSession, connectionReplaced.
ClosedForGood(k) ==
    LET i == sock[k].owner
    IN /\ Live(k)
       /\ sock' = [sock EXCEPT ![k] = NoSocket]
       /\ Becomes(i, [prov[i] EXCEPT !.status = "DISCONNECTED", !.attempts = 0,
                                     !.sock = None, !.inProgress = FALSE])
       /\ Reports(prov[i], {"DISCONNECTED"}, {})
       /\ creds' = FALSE
       /\ UNCHANGED <<current, registered, loading, booted, db, requests, crashes>>

MayRetryForever(p) == TRUE
MayRetry(p) == p.attempts < MaxAttempts

\* Any other reason, and the close that end() leads to: it has no reason.
Closed(k) ==
    LET i == sock[k].owner
        p == [prov[i] EXCEPT !.sock = None, !.inProgress = FALSE]
    IN /\ sock[k].state # "none"
       /\ sock' = [sock EXCEPT ![k] = NoSocket]
       /\ IF MayRetry(p)
          THEN /\ Becomes(i, [p EXCEPT !.status = "RECONNECTING", !.timers = @ + 1,
                                       !.attempts = IF @ < MaxAttempts THEN @ + 1 ELSE @])
               /\ Reports(p, {"RECONNECTING"}, {})
          ELSE /\ Becomes(i, [p EXCEPT !.status = "ERROR", !.attempts = 0])
               /\ Reports(p, {"ERROR"}, {})
       /\ UNCHANGED <<current, registered, loading, booted, creds, db, requests, crashes>>

TimerFires(i) ==
    LET p == [prov[i] EXCEPT !.timers = @ - 1, !.inProgress = FALSE]
    IN /\ prov[i].timers > 0
       /\ Becomes(i, Connects(p, "timer"))
       /\ Reports(p, Heard(p, "timer"), {})
       /\ UNCHANGED <<sock, current, registered, loading, booted, creds, db,
                      requests, crashes>>

-----------------------------------------------------------------------------
(* The row, the process *)

Written(b) ==
    /\ b \in writes
    /\ writes' = writes \ {b}
    /\ db' = b
    /\ UNCHANGED <<prov, sock, current, registered, loading, booted, creds,
                   requests, crashes>>

Crash ==
    /\ crashes < MaxCrashes
    /\ crashes' = crashes + 1
    /\ prov' = [i \in Providers |-> NewProvider]
    /\ sock' = [k \in Sockets |-> NoSocket]
    /\ writes' = {}
    /\ current' = None /\ registered' = FALSE /\ loading' = 0 /\ booted' = FALSE
    /\ UNCHANGED <<creds, db, requests>>

LostSilently == {}
Lost == {"DISCONNECTED"}

\* restoreSessions, from the read of the rows to the call of connect: one step, though
\* the code awaits the rows and the class in between, where a request could connect.
RestoreSessions ==
    /\ Restores /\ ~booted
    /\ booted' = TRUE
    /\ IF db
       THEN \E i \in Providers :
              /\ IF current = None
                 THEN Gone(i) /\ \A j \in Providers : Gone(j) => i <= j
                 ELSE i = current
              /\ current' = i
              /\ LET p == IF current = None THEN NewProvider ELSE prov[i]
                     q == Registers(p)
                 IN IF creds
                    THEN /\ Becomes(i, [Connects(q, "restore") EXCEPT
                                           !.disturbed = @ \/ q.status \in Engaged])
                         /\ Reports(q, Heard(q, "restore"), {})
                         /\ registered' = TRUE
                    ELSE /\ Becomes(i, p)
                         /\ Reports(p, {}, Lost)
                         /\ UNCHANGED registered
       ELSE UNCHANGED <<prov, current, registered, writes>>
    /\ UNCHANGED <<sock, loading, creds, db, requests, crashes>>

-----------------------------------------------------------------------------
Init ==
    /\ prov = [i \in Providers |-> NewProvider]
    /\ sock = [k \in Sockets |-> NoSocket]
    /\ current = None /\ registered = FALSE /\ loading = 0 /\ booted = TRUE
    /\ creds = FALSE /\ db = FALSE
    /\ writes = {}
    /\ requests = 0 /\ crashes = 0

Administrator == Connect \/ Disconnect \/ RefreshQr \/ ForceReconnect

CallReturns(i, caller) == SocketMade(i, caller) \/ ConnectFails(i, caller)

SocketAnswers(k) == Opened(k) \/ ClosedForGood(k) \/ Closed(k)

Next ==
    \/ Administrator \/ Loaded \/ RestoreSessions \/ Crash
    \/ \E i \in Providers : TimerFires(i) \/ \E c \in Callers : CallReturns(i, c)
    \/ \E k \in Sockets : QrShown(k) \/ SocketAnswers(k)
    \/ \E b \in BOOLEAN : Written(b)

\* Timers fire, awaited calls return and writes land.  A socket that is not open
\* gives its answer in the end: the library gives up on a connection that does not
\* come, on a QR code nobody scans, and closes a socket that was ended.
Fairness ==
    /\ WF_vars(Loaded) /\ WF_vars(RestoreSessions)
    /\ \A i \in Providers :
         /\ WF_vars(TimerFires(i))
         /\ \A c \in Callers : WF_vars(CallReturns(i, c))
    /\ \A k \in Sockets : WF_vars(sock[k].state # "open" /\ SocketAnswers(k))
    /\ \A b \in BOOLEAN : WF_vars(Written(b))

Spec == Init /\ [][Next]_vars /\ Fairness

-----------------------------------------------------------------------------
(* Correctness *)

TypeOK ==
    /\ prov \in [Providers -> Provider]
    /\ sock \in [Sockets -> Socket]
    /\ current \in Providers \cup {None}
    /\ registered \in BOOLEAN /\ booted \in BOOLEAN /\ creds \in BOOLEAN
    /\ loading \in Nat /\ requests \in Nat /\ crashes \in Nat
    /\ db \in BOOLEAN /\ writes \subseteq BOOLEAN
    /\ \A k \in Sockets : sock[k].state # "none" => sock[k].owner \in Providers

\* Until a method ends one of its sockets, or restoreSessions reconnects it without
\* a look at its status, a provider has one thing under way: an attempt, a socket or
\* a timer; it knows its socket, and its status says which.  That is what
\* inProgress, sock and the statuses the manager looks at are for.
OneThingUnderWay ==
    TypeOK /\ \A i \in Providers : ~prov[i].disturbed =>
        /\ CallsOf(i) + Cardinality(SocketsOf(i)) + prov[i].timers <= 1
        /\ \A k \in SocketsOf(i) : prov[i].sock = k
        /\ prov[i].timers > 0 <=> prov[i].status = "RECONNECTING"
        /\ CallsOf(i) > 0 => prov[i].status = "CONNECTING"

\* A session that is connecting or reconnecting comes to a result: after a bounded
\* number of attempts, and whatever the order of timers, closes and requests, it is
\* connected, or says that it is not.
ComesToAResult ==
    \A i \in Providers :
        prov[i].status \in {"CONNECTING", "RECONNECTING", "QR_REQUIRED"}
            ~> prov[i].status \in {"CONNECTED", "ERROR", "DISCONNECTED"}

\* "Restore sessions that were active before restart": a session the row calls
\* active is tried again, or the row stops saying so.
RestoredOrReported ==
    ~booted /\ db ~> \/ ~db
                     \/ current # None /\ prov[current].status # "DISCONNECTED"

\* "one Baileys connection per restaurant".
OneConnection == Cardinality({k \in Sockets : Live(k)}) <= 1

=============================================================================
