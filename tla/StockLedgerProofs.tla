------------------------- MODULE StockLedgerProofs -------------------------
(***************************************************************************)
(* StockLedger keeps its lock discipline and its accounts, and moves each  *)
(* document once and whole, for any products, documents and requests.      *)
(***************************************************************************)
EXTENDS StockLedger, TLAPS

\* A request in a given phase carries the data of that phase.
LEMMA Carries ==
    ASSUME TypeOK, NEW s \in Slots
    PROVE  /\ req[s].at = "begin" =>
                 req[s] \in [at : {"begin"}, d : Documents, from : Status, to : Status]
           /\ req[s].at = "move" =>
                 req[s] \in [at : {"move"}, d : Documents, to : Status,
                             todo : SUBSET Products, held : SUBSET Products,
                             new : [Products -> Nat]]
           /\ req[s].at = "reserve" =>
                 req[s] \in [at : {"reserve"}, d : Documents, to : Status,
                             todo : SUBSET Products, held : SUBSET Products,
                             new : [Products -> Nat], p : Products]
           /\ req[s].at = "count" =>
                 req[s] \in [at : {"count"}, p : Counted, level : Levels, delta : Int]
<1>1. req[s] \in Requests
  BY DEF TypeOK
<1> QED BY <1>1 DEF Requests, Idle

\* What a transaction carries, in either of its phases.
LEMMA Transaction ==
    ASSUME TypeOK, NEW s \in Slots, InTx(s)
    PROVE  /\ req[s].d \in Documents /\ req[s].to \in Status
           /\ req[s].todo \in SUBSET Products /\ req[s].held \in SUBSET Products
           /\ req[s].new \in [Products -> Nat]
BY Carries DEF InTx

LEMMA HeldAreProducts ==
    ASSUME TypeOK, NEW s \in Slots
    PROVE  Held(s) \subseteq Products
BY Transaction DEF Held

\* The sign of a movement does not make it anything but a whole number.
LEMMA SignedIsInt ==
    ASSUME NEW d \in Documents, NEW p \in Products
    PROVE  Signed(d, p) \in Int
BY DocumentsAssumption DEF Signed

-----------------------------------------------------------------------------
(* The balances and the rows that transactions hold *)

LEMMA LedgerStart == Init => LedgerInv
<1> SUFFICES ASSUME Init PROVE LedgerInv
  OBVIOUS
<1>1. TypeOK
  BY DocumentsAssumption, ProductsAssumption
    DEF Init, TypeOK, Status, Requests, Idle, Documents
<1>2. \A s \in Slots : ~InTx(s)
  BY DEF Init, Idle, InTx
<1> QED BY <1>1, <1>2 DEF LedgerInv, Exclusive, KnownBalances, Held

\* A step of one request that changes nothing but what that request carries.
Quiet(s) ==
    /\ UNCHANGED <<stock, listed, ledger, doc>>
    /\ req' = [req EXCEPT ![s] = req'[s]]

\* Such a step keeps the invariant if it takes no row another transaction holds
\* and knows the balance of each row it has taken.
LEMMA QuietKeeps ==
    ASSUME LedgerInv, NEW s \in Slots, Quiet(s),
           req'[s] \in Requests,
           \A t \in Slots : t # s => Held(s)' \cap Held(t) = {},
           InTx(s)' => \A p \in Held(s)' :
                         req'[s].new[p] = stock[p] + Signed(req'[s].d, p)
    PROVE  LedgerInv'
<1>1. TypeOK'
  BY DEF LedgerInv, TypeOK, Quiet
<1>2. \A t \in Slots : t # s => req'[t] = req[t] /\ Held(t)' = Held(t)
                                /\ InTx(t)' = InTx(t)
  BY DEF LedgerInv, TypeOK, Quiet, Held, InTx
<1>3. Exclusive'
  <2> SUFFICES ASSUME NEW t \in Slots, NEW u \in Slots, t # u
               PROVE  Held(t)' \cap Held(u)' = {}
    BY DEF Exclusive
  <2>1. CASE t = s
    BY <1>2, <2>1
  <2>2. CASE u = s
    <3>1. Held(s)' \cap Held(t) = {} /\ Held(t)' = Held(t)
      BY <1>2, <2>2
    <3> QED BY <2>2, <3>1
  <2>3. CASE t # s /\ u # s
    BY <1>2, <2>3 DEF LedgerInv, Exclusive
  <2> QED BY <2>1, <2>2, <2>3
<1>4. KnownBalances'
  <2> SUFFICES ASSUME NEW t \in Slots, InTx(t)', NEW p \in Held(t)'
               PROVE  req'[t].new[p] = stock'[p] + Signed(req'[t].d, p)
    BY DEF KnownBalances, Signed
  <2>1. stock' = stock
    BY DEF Quiet
  <2>2. CASE t = s
    BY <2>1, <2>2
  <2>3. CASE t # s
    BY <1>2, <2>1, <2>3 DEF LedgerInv, KnownBalances
  <2> QED BY <2>2, <2>3
<1> QED BY <1>1, <1>3, <1>4 DEF LedgerInv

\* A request that is not in a transaction holds no row.
LEMMA IdleKeeps ==
    ASSUME LedgerInv, NEW s \in Slots, Quiet(s), req'[s] \in Requests, ~InTx(s)'
    PROVE  LedgerInv'
<1>1. Held(s)' = {}
  BY DEF Held
<1> QED BY <1>1, QuietKeeps

\* applyStockMovement under the row's lock: one more row held, its balance known.
LEMMA ApplyKeeps ==
    ASSUME LedgerInv, NEW s \in Slots, InTx(s), NEW p \in Products, Free(p),
           UNCHANGED <<stock, listed, ledger, doc>>, Apply(s, p, stock[p])
    PROVE  LedgerInv'
<1> DEFINE d == req[s].d
           after == stock[p] + Signed(d, p)
<1>1. /\ d \in Documents /\ req[s].to \in Status
      /\ req[s].todo \in SUBSET Products /\ req[s].held \in SUBSET Products
      /\ req[s].new \in [Products -> Nat]
  BY Transaction DEF LedgerInv
<1>2. after \in Nat
  <2>1. stock[p] \in Nat
    BY DEF LedgerInv, TypeOK
  <2> QED BY <1>1, <2>1, SignedIsInt DEF Apply, Refused
<1>3. req'[s] = [at |-> "move", d |-> d, to |-> req[s].to, todo |-> req[s].todo \ {p},
                 held |-> req[s].held \cup {p}, new |-> [req[s].new EXCEPT ![p] = after]]
  BY DEF Apply, Goto, LedgerInv, TypeOK
<1>4. req'[s] \in Requests
  BY <1>1, <1>2, <1>3 DEF Requests
<1>5. Quiet(s)
  BY <1>3 DEF Quiet, Apply, Goto
<1>6. Held(s) = req[s].held /\ Held(s)' = Held(s) \cup {p} /\ InTx(s)'
  BY <1>3 DEF Held, InTx
<1>7. ASSUME NEW t \in Slots, t # s
      PROVE  Held(s)' \cap Held(t) = {}
  BY <1>6, <1>7 DEF Free, LedgerInv, Exclusive
<1>8. ASSUME NEW q \in Held(s)'
      PROVE  req'[s].new[q] = stock[q] + Signed(req'[s].d, q)
  <2>1. q \in Products
    BY <1>1, <1>6, <1>8
  <2>2. CASE q = p
    BY <1>1, <1>3, <2>2
  <2>3. CASE q # p
    <3>1. q \in Held(s) /\ req'[s].new[q] = req[s].new[q] /\ req'[s].d = d
      BY <1>1, <1>3, <1>6, <1>8, <2>1, <2>3
    <3> QED BY <3>1 DEF LedgerInv, KnownBalances
  <2> QED BY <2>2, <2>3
<1> QED BY <1>4, <1>5, <1>7, <1>8, QuietKeeps

\* Going back to idle is quiet and holds no row.
LEMMA ToIdle ==
    ASSUME TypeOK, NEW s \in Slots, Goto(s, Idle)
    PROVE  /\ req'[s] = Idle /\ req' \in [Slots -> Requests]
           /\ Held(s)' = {} /\ ~InTx(s)'
           /\ \A t \in Slots : t # s => /\ req'[t] = req[t]
                                        /\ Held(t)' = Held(t) /\ InTx(t)' = InTx(t)
<1>1. Idle \in Requests
  BY DEF Requests
<1>2. req'[s] = Idle /\ req' \in [Slots -> Requests]
      /\ \A t \in Slots : t # s => req'[t] = req[t]
  BY <1>1 DEF Goto, TypeOK
<1>3. ~InTx(s)'
  BY <1>2 DEF Idle, InTx
<1> QED BY <1>2, <1>3 DEF Held, InTx

\* What a commit writes of a product.
Written(s, p) ==
    IF p \in req[s].held
      THEN /\ stock'[p] = req[s].new[p]
           /\ ledger'[p] = Append(ledger[p], [qty |-> Signed(req[s].d, p),
                                              after |-> req[s].new[p], ref |-> req[s].d])
      ELSE stock'[p] = stock[p] /\ ledger'[p] = ledger[p]

LEMMA CommitWrites ==
    ASSUME TypeOK, NEW s \in Slots, Commit(s)
    PROVE  /\ \A p \in Products : Written(s, p)
           /\ stock' \in [Products -> Nat]
           /\ ledger' \in [Products -> Seq(Movement)]
           /\ listed' \in SUBSET Products
<1>1. InTx(s)
  BY DEF Commit, InTx
<1>2. /\ req[s].d \in Documents /\ req[s].held \in SUBSET Products
      /\ req[s].new \in [Products -> Nat]
  BY <1>1, Transaction
<1>3. /\ stock' = [p \in Products |-> IF p \in req[s].held THEN req[s].new[p]
                                                           ELSE stock[p]]
      /\ ledger' = [p \in Products |->
            IF p \in req[s].held
              THEN Append(ledger[p], [qty |-> Signed(req[s].d, p),
                                      after |-> req[s].new[p], ref |-> req[s].d])
              ELSE ledger[p]]
      /\ listed' = listed \cup req[s].held
  BY DEF Commit
<1>4. ASSUME NEW p \in Products
      PROVE  /\ Append(ledger[p], [qty |-> Signed(req[s].d, p),
                                   after |-> req[s].new[p], ref |-> req[s].d])
                  \in Seq(Movement)
             /\ ledger[p] \in Seq(Movement)
  <2>1. [qty |-> Signed(req[s].d, p), after |-> req[s].new[p], ref |-> req[s].d]
          \in Movement
    BY <1>2, SignedIsInt DEF Movement, References
  <2> QED BY <2>1 DEF TypeOK
<1>5. stock' \in [Products -> Nat]
  BY <1>2, <1>3 DEF TypeOK
<1>6. ledger' \in [Products -> Seq(Movement)]
  BY <1>3, <1>4
<1>7. listed' \in SUBSET Products
  BY <1>2, <1>3 DEF TypeOK
<1>8. \A p \in Products : Written(s, p)
  BY <1>3 DEF Written
<1> QED BY <1>5, <1>6, <1>7, <1>8

\* A commit writes only its own rows.
LEMMA CommitKeeps ==
    ASSUME LedgerInv, NEW s \in Slots, Commit(s)
    PROVE  LedgerInv'
<1>0. TypeOK /\ InTx(s) /\ Goto(s, Idle)
  BY DEF Commit, InTx, LedgerInv
<1>1. TypeOK'
  <2>1. \A S \in {doc} \cup Settled(req[s].d, req[s].to) : S \in [Documents -> Status]
    BY <1>0, Transaction DEF Settled, TypeOK, Status
  <2> QED BY <1>0, <2>1, CommitWrites, ToIdle DEF Commit, TypeOK
<1>2. Exclusive'
  BY <1>0, ToIdle DEF Exclusive, LedgerInv
<1>3. KnownBalances'
  <2> SUFFICES ASSUME NEW t \in Slots, InTx(t)', NEW p \in Held(t)'
               PROVE  req'[t].new[p] = stock'[p] + Signed(req'[t].d, p)
    BY DEF KnownBalances, Signed
  <2>1. t # s /\ InTx(t) /\ p \in Held(t) /\ req'[t] = req[t]
    BY <1>0, ToIdle
  <2>2. p \notin Held(s) /\ p \in Products
    BY <1>0, <2>1, HeldAreProducts DEF LedgerInv, Exclusive
  <2>3. stock'[p] = stock[p]
    BY <1>0, <2>2, CommitWrites DEF Written, Held
  <2> QED BY <2>1, <2>3 DEF LedgerInv, KnownBalances
<1> QED BY <1>1, <1>2, <1>3 DEF LedgerInv

\* A count changes a row that no transaction holds.
LEMMA CountKeeps ==
    ASSUME LedgerInv, NEW s \in Slots, Count(s)
    PROVE  LedgerInv'
<1> DEFINE p == req[s].p
<1>0. TypeOK /\ Goto(s, Idle) /\ req[s].at = "count"
  BY DEF Count, LedgerInv
<1>1. p \in Counted /\ p \in Products /\ req[s].level \in Nat /\ req[s].delta \in Int
  BY <1>0, Carries, ProductsAssumption
<1>2. /\ Free(p) /\ stock' = [stock EXCEPT ![p] = req[s].level]
      /\ listed' = listed \cup {p} /\ doc' = doc
  BY DEF Count
<1>3. ledger' \in [Products -> Seq(Movement)]
  <2>1. CASE ledger' = ledger
    BY <1>0, <2>1 DEF TypeOK
  <2>2. CASE /\ ~Refused(stock[p] + req[s].delta)
             /\ ledger' = [ledger EXCEPT ![p] =
                   Append(ledger[p], [qty |-> req[s].delta,
                                      after |-> stock[p] + req[s].delta, ref |-> "count"])]
    <3>1. stock[p] + req[s].delta \in Nat
      BY <1>0, <1>1, <2>2 DEF TypeOK, Refused
    <3>2. [qty |-> req[s].delta, after |-> stock[p] + req[s].delta, ref |-> "count"]
            \in Movement
      BY <1>1, <3>1 DEF Movement, References
    <3>3. Append(ledger[p], [qty |-> req[s].delta, after |-> stock[p] + req[s].delta,
                             ref |-> "count"]) \in Seq(Movement)
      BY <1>0, <1>1, <3>2 DEF TypeOK
    <3> QED BY <1>0, <1>1, <2>2, <3>3 DEF TypeOK
  <2> QED BY <2>1, <2>2 DEF Count
<1>4. TypeOK'
  BY <1>0, <1>1, <1>2, <1>3, ToIdle DEF TypeOK
<1>5. Exclusive'
  BY <1>0, ToIdle DEF Exclusive, LedgerInv
<1>6. KnownBalances'
  <2> SUFFICES ASSUME NEW t \in Slots, InTx(t)', NEW q \in Held(t)'
               PROVE  req'[t].new[q] = stock'[q] + Signed(req'[t].d, q)
    BY DEF KnownBalances, Signed
  <2>1. t # s /\ InTx(t) /\ q \in Held(t) /\ req'[t] = req[t]
    BY <1>0, ToIdle
  <2>2. q # p /\ q \in Products
    BY <1>0, <1>2, <2>1, HeldAreProducts DEF Free
  <2>3. stock'[q] = stock[q]
    BY <1>0, <1>2, <2>2 DEF TypeOK
  <2> QED BY <2>1, <2>3 DEF LedgerInv, KnownBalances
<1> QED BY <1>4, <1>5, <1>6 DEF LedgerInv

LEMMA StepKeeps ==
    ASSUME LedgerInv, NEW s \in Slots, Step(s)
    PROVE  LedgerInv'
<1>0. TypeOK
  BY DEF LedgerInv
<1>1. CASE Read(s)
  <2>1. PICK d \in Documents :
          \E to \in Transitions[doc[d]] :
             Goto(s, [at |-> "begin", d |-> d, from |-> doc[d], to |-> to])
    BY <1>1 DEF Read
  <2>2. PICK to \in Transitions[doc[d]] :
          Goto(s, [at |-> "begin", d |-> d, from |-> doc[d], to |-> to])
    BY <2>1
  <2>3. doc[d] \in Status /\ to \in Status
    BY <1>0, <2>2 DEF TypeOK, Transitions, Status
  <2>4. req'[s] = [at |-> "begin", d |-> d, from |-> doc[d], to |-> to] /\ Quiet(s)
    BY <1>0, <1>1, <2>2 DEF Goto, TypeOK, Quiet, Read
  <2> QED BY <2>3, <2>4, IdleKeeps DEF Requests, InTx
<1>2. CASE Begin(s)
  <2> DEFINE d == req[s].d
             to == req[s].to
             r == [at |-> "move", d |-> d, to |-> to, todo |-> Due(d, req[s].from, to),
                   held |-> {}, new |-> [p \in Products |-> 0]]
  <2>1. d \in Documents /\ to \in Status
    BY <1>0, <1>2, Carries DEF Begin
  <2>2. req'[s] = r /\ Quiet(s)
    BY <1>0, <1>2 DEF Begin, Goto, TypeOK, Quiet
  <2>3. r \in Requests
    BY <2>1 DEF Requests, Due, Items
  <2>4. Held(s)' = {}
    BY <2>2 DEF Held
  <2> QED BY <2>2, <2>3, <2>4, QuietKeeps
<1>3. CASE LockRow(s)
  <2>1. PICK p \in req[s].todo \cap listed : Free(p) /\ Apply(s, p, stock[p])
    BY <1>3 DEF LockRow
  <2>2. InTx(s) /\ p \in Products /\ UNCHANGED <<stock, listed, ledger, doc>>
    BY <1>0, <1>3 DEF LockRow, InTx, TypeOK
  <2> QED BY <2>1, <2>2, ApplyKeeps
<1>4. CASE FindNoRow(s)
  <2>1. PICK p \in req[s].todo \ listed :
          Goto(s, [at |-> "reserve", d |-> req[s].d, to |-> req[s].to,
                   todo |-> req[s].todo, held |-> req[s].held,
                   new |-> req[s].new, p |-> p])
    BY <1>4 DEF FindNoRow
  <2>2. InTx(s)
    BY <1>4 DEF FindNoRow, InTx
  <2>3. /\ req[s].d \in Documents /\ req[s].to \in Status
        /\ req[s].todo \in SUBSET Products /\ req[s].held \in SUBSET Products
        /\ req[s].new \in [Products -> Nat]
    BY <1>0, <2>2, Transaction
  <2>4. /\ req'[s] = [at |-> "reserve", d |-> req[s].d, to |-> req[s].to,
                      todo |-> req[s].todo, held |-> req[s].held,
                      new |-> req[s].new, p |-> p]
        /\ Quiet(s)
    BY <1>0, <1>4, <2>1 DEF FindNoRow, Goto, TypeOK, Quiet
  <2>5. req'[s] \in Requests
    BY <2>3, <2>4 DEF Requests
  <2>6. Held(s)' = Held(s) /\ InTx(s)'
    BY <2>2, <2>4 DEF Held, InTx
  <2>7. \A t \in Slots : t # s => Held(s)' \cap Held(t) = {}
    BY <2>6 DEF LedgerInv, Exclusive
  <2>8. \A q \in Held(s)' : req'[s].new[q] = stock[q] + Signed(req'[s].d, q)
    BY <2>2, <2>4, <2>6 DEF LedgerInv, KnownBalances
  <2> QED BY <2>4, <2>5, <2>7, <2>8, QuietKeeps
<1>5. CASE ReserveRow(s)
  <2>1. InTx(s) /\ req[s].p \in Products
    BY <1>0, <1>5, Carries DEF ReserveRow, InTx
  <2>2. Free(req[s].p) /\ Apply(s, req[s].p, stock[req[s].p])
        /\ UNCHANGED <<stock, listed, ledger, doc>>
    BY <1>5 DEF ReserveRow, Relocked
  <2> QED BY <2>1, <2>2, ApplyKeeps
<1>6. CASE Commit(s)
  BY <1>6, CommitKeeps
<1>7. CASE GiveUp(s)
  <2>1. req'[s] = Idle /\ Quiet(s) /\ ~InTx(s)' /\ Idle \in Requests
    BY <1>0, <1>7, ToIdle DEF GiveUp, Goto, Quiet, TypeOK, Requests
  <2> QED BY <2>1, IdleKeeps
<1>8. CASE CountStart(s)
  <2>1. PICK p \in Counted, level \in Levels :
          Goto(s, [at |-> "count", p |-> p, level |-> level, delta |-> level - stock[p]])
    BY <1>8 DEF CountStart
  <2>2. /\ req'[s] = [at |-> "count", p |-> p, level |-> level, delta |-> level - stock[p]]
        /\ Quiet(s)
    BY <1>0, <1>8, <2>1 DEF CountStart, Goto, TypeOK, Quiet
  <2>3. level - stock[p] \in Int
    BY <1>0, ProductsAssumption DEF TypeOK
  <2> QED BY <2>2, <2>3, IdleKeeps DEF Requests, InTx
<1>9. CASE Count(s)
  BY <1>9, CountKeeps
<1> QED BY <1>1, <1>2, <1>3, <1>4, <1>5, <1>6, <1>7, <1>8, <1>9 DEF Step

LEMMA LedgerStutter == LedgerInv /\ UNCHANGED vars => LedgerInv'
BY DEF LedgerInv, TypeOK, Exclusive, KnownBalances, Held, InTx, Signed, vars

\* However many requests move however many products at once, a row is held by one
\* transaction, which knows its balance until it commits (applyStockMovement).
THEOREM LedgerKept == Spec => []LedgerInv
<1>1. LedgerInv /\ [Next]_vars => LedgerInv'
  BY StepKeeps, LedgerStutter DEF Next
<1> QED BY LedgerStart, <1>1, PTL DEF Spec

-----------------------------------------------------------------------------
(* The account of each product that nobody counts *)

\* A commit takes from the balance it locked: the movement is the difference.
LEMMA CommitPosts ==
    ASSUME LedgerInv, NEW s \in Slots, Commit(s), NEW p \in Products
    PROVE  IF p \in req[s].held THEN Account(p)!Post
                                ELSE UNCHANGED <<stock[p], ledger[p]>>
<1>0. TypeOK /\ InTx(s)
  BY DEF Commit, InTx, LedgerInv
<1>1. Written(s, p) /\ stock'[p] \in Nat
  BY <1>0, CommitWrites
<1>2. CASE p \in req[s].held
  <2>1. req[s].new[p] = stock[p] + Signed(req[s].d, p)
    BY <1>0, <1>2 DEF LedgerInv, KnownBalances, Held
  <2>2. req[s].d \in Documents /\ Signed(req[s].d, p) \in Int /\ stock[p] \in Nat
    BY <1>0, Transaction, SignedIsInt DEF TypeOK
  <2>3. Signed(req[s].d, p) = stock'[p] - stock[p]
    BY <1>1, <1>2, <2>1, <2>2 DEF Written
  <2>4. req[s].d \in References
    BY <2>2 DEF References
  <2>5. ledger'[p] = Append(ledger[p], [qty |-> stock'[p] - stock[p],
                                        after |-> stock'[p], ref |-> req[s].d])
    BY <1>1, <1>2, <2>3 DEF Written
  <2> QED BY <1>1, <1>2, <2>4, <2>5 DEF Account!Post
<1>3. CASE p \notin req[s].held
  BY <1>1, <1>3 DEF Written
<1> QED BY <1>2, <1>3

AccountsStep ==
    \A p \in Products \ Counted : Account(p)!Post \/ UNCHANGED <<stock[p], ledger[p]>>

LEMMA StepPosts ==
    ASSUME LedgerInv, [Next]_vars
    PROVE  AccountsStep
<1>1. CASE \E s \in Slots : Commit(s)
  BY <1>1, CommitPosts DEF AccountsStep
<1>2. CASE \E s \in Slots : Count(s)
  <2>1. PICK s \in Slots : Count(s)
    BY <1>2
  <2>2. TypeOK /\ req[s].p \in Counted
    BY <2>1, Carries DEF Count, LedgerInv
  <2>3. ASSUME NEW p \in Products \ Counted
        PROVE  UNCHANGED <<stock[p], ledger[p]>>
    BY <2>1, <2>2, <2>3 DEF Count, TypeOK
  <2> QED BY <2>3 DEF AccountsStep
<1>3. CASE UNCHANGED <<stock, ledger>>
  BY <1>3 DEF AccountsStep
<1> QED BY <1>1, <1>2, <1>3
      DEF Next, Step, Read, Begin, LockRow, FindNoRow, ReserveRow, GiveUp, CountStart, vars

\* The stock of a product that nobody counts by hand is an account, whichever
\* documents move it at once and also when its row did not exist.
THEOREM EveryChangeIsAMovement == Spec => AccountsKept
<1>1. Init => \A p \in Products \ Counted : Account(p)!Open
  BY DEF Init, Account!Open
<1>2. LedgerInv /\ [Next]_vars => [AccountsStep]_vars
  BY StepPosts
<1> QED BY <1>1, <1>2, LedgerKept, PTL DEF Spec, AccountsKept, AccountsStep

\* The last movement of a product that nobody counts leaves the balance it has.
UncountedReflected == \A p \in Products \ Counted : Reflected(p)

LEMMA PostReflects ==
    ASSUME TypeOK, NEW p \in Products, Account(p)!Post
    PROVE  Reflected(p)'
<1>1. PICK ref \in References :
        ledger'[p] = Append(ledger[p], [qty |-> stock'[p] - stock[p],
                                        after |-> stock'[p], ref |-> ref])
  BY DEF Account!Post
<1>2. ledger[p] \in Seq(Movement)
  BY DEF TypeOK
<1>3. /\ ledger'[p] # <<>>
      /\ ledger'[p][Len(ledger'[p])] = [qty |-> stock'[p] - stock[p],
                                        after |-> stock'[p], ref |-> ref]
  BY <1>1, <1>2
<1> QED BY <1>3 DEF Reflected

\* For the products that nobody counts the ledger always reflects the stock; the
\* counted ones are where the code breaks it.
THEOREM LedgerReflectsUncounted == Spec => []UncountedReflected
<1>1. Init => UncountedReflected
  BY DEF Init, UncountedReflected, Reflected
<1>2. LedgerInv /\ UncountedReflected /\ [Next]_vars => UncountedReflected'
  <2> SUFFICES ASSUME LedgerInv, UncountedReflected, [Next]_vars,
                      NEW p \in Products \ Counted
               PROVE  Reflected(p)'
    BY DEF UncountedReflected
  <2>1. CASE Account(p)!Post
    BY <2>1, PostReflects DEF LedgerInv
  <2>2. CASE UNCHANGED <<stock[p], ledger[p]>>
    BY <2>2 DEF UncountedReflected, Reflected
  <2> QED BY <2>1, <2>2, StepPosts DEF AccountsStep
<1> QED BY <1>1, <1>2, LedgerKept, PTL DEF Spec

-----------------------------------------------------------------------------
(* Each document moves its products once and whole *)

\* The statuses of each kind of document.
Kinds ==
    /\ \A o \in Orders : doc[o] \in {"PROCESSING", "READY", "COMPLETED", "CANCELLED"}
    /\ \A u \in Purchases : doc[u] \in {"DRAFT", "RECEIVED", "CANCELLED"}
    /\ \A r \in Refunds : doc[r] \in {"PENDING", "APPROVED", "REJECTED"}

Fresh == {"PROCESSING", "DRAFT", "PENDING", "REJECTED"}

Once(d) == \A p \in Products : \A i, j \in Entries(d, p) : i = j

Whole(d) == \A p \in Items(d) : Entries(d, p) # {}

\* Orders that moved their stock on becoming READY.
Modern(d) == d \in Orders \ LegacyOrders /\ doc[d] = "READY"

DocumentFits(d) ==
    /\ Once(d)
    /\ Moved(d) => Whole(d) /\ doc[d] \notin Fresh
    /\ doc[d] \in {"RECEIVED", "COMPLETED"} \/ Modern(d) => Whole(d)

\* A transaction has taken and still has to take what was due when it wrote its
\* document, and what was due stays due until it ends.
TransactionFits(s) ==
    /\ req[s].to \in Transitions[doc[req[s].d]]
    /\ req[s].todo \cap req[s].held = {}
    /\ req[s].todo \cup req[s].held = Due(req[s].d, doc[req[s].d], req[s].to)
    /\ req[s].at = "reserve" => req[s].p \in req[s].todo

Serialized ==
    /\ \A s \in Slots : InTx(s) => TransactionFits(s)
    /\ \A s \in Slots : req[s].at = "begin" => req[s].to \in Transitions[req[s].from]
    /\ \A s, t \in Slots : s # t /\ InTx(s) /\ InTx(t) =>
          RowsOf(req[s]) \cap RowsOf(req[t]) = {}

HistoryInv ==
    /\ Kinds
    /\ \A d \in Documents : DocumentFits(d)
    /\ NothingBackBeforeItLeft
    /\ Serialized

LEMMA HistoryShows == HistoryInv => MovedOnceAndWhole /\ NothingBackBeforeItLeft
<1> SUFFICES ASSUME HistoryInv, NEW d \in Documents
             PROVE  /\ \A p \in Items(d) :
                          /\ \A i, j \in Entries(d, p) : i = j
                          /\ Moved(d) => Entries(d, p) # {}
                          /\ doc[d] \in {"RECEIVED", "COMPLETED"} => Entries(d, p) # {}
                    /\ Moved(d) => doc[d] \notin Fresh
  BY DEF HistoryInv, MovedOnceAndWhole, Fresh
<1>1. DocumentFits(d)
  BY DEF HistoryInv
<1> QED BY <1>1 DEF DocumentFits, Once, Whole, Items

LEMMA HistoryStart == Init => HistoryInv
<1> SUFFICES ASSUME Init PROVE HistoryInv
  OBVIOUS
<1>1. Kinds
  <2>1. \A o \in Orders : doc[o] \in {"READY", "PROCESSING"}
    BY DocumentsAssumption DEF Init, Documents
  <2>2. \A u \in Purchases : doc[u] = "DRAFT"
    BY DocumentsAssumption DEF Init, Documents
  <2>3. \A r \in Refunds : doc[r] = "PENDING"
    BY DocumentsAssumption DEF Init, Documents
  <2> QED BY <2>1, <2>2, <2>3 DEF Kinds
<1>2. \A d \in Documents, p \in Products : Entries(d, p) = {}
  BY DEF Init, Entries
<1>3. \A d \in Documents : ~Moved(d) /\ Once(d)
  BY <1>2 DEF Moved, Once
<1>4. \A d \in Documents : doc[d] \notin {"RECEIVED", "COMPLETED"} /\ ~Modern(d)
  BY DocumentsAssumption DEF Init, Modern, Documents
<1>5. \A d \in Documents : DocumentFits(d)
  BY <1>3, <1>4 DEF DocumentFits
<1>6. NothingBackBeforeItLeft
  BY <1>3 DEF NothingBackBeforeItLeft, Documents
<1>7. Serialized
  BY DEF Init, Serialized, Idle, InTx
<1> QED BY <1>1, <1>5, <1>6, <1>7 DEF HistoryInv

\* A quiet step keeps the history if the transaction it leaves fits.
LEMMA QuietFits ==
    ASSUME TypeOK, HistoryInv, NEW s \in Slots, Quiet(s),
           InTx(s)' => /\ TransactionFits(s)'
                       /\ \A t \in Slots : t # s /\ InTx(t) =>
                             RowsOf(req'[s]) \cap RowsOf(req[t]) = {},
           req'[s].at = "begin" => req'[s].to \in Transitions[req'[s].from]
    PROVE  HistoryInv'
<1>1. UNCHANGED <<stock, ledger, doc>>
  BY DEF Quiet
<1>2. Kinds' /\ NothingBackBeforeItLeft'
  BY <1>1 DEF HistoryInv, Kinds, NothingBackBeforeItLeft, Moved, Entries
<1>3. \A d \in Documents : DocumentFits(d)'
  BY <1>1 DEF HistoryInv, DocumentFits, Once, Whole, Moved, Entries, Items, Modern
<1>4. \A t \in Slots : t # s => req'[t] = req[t] /\ InTx(t)' = InTx(t)
  BY DEF TypeOK, Quiet, InTx
<1>5. ASSUME NEW t \in Slots, InTx(t)' PROVE TransactionFits(t)'
  <2>1. CASE t = s
    BY <1>5, <2>1
  <2>2. CASE t # s
    <3>1. TransactionFits(t) /\ req'[t] = req[t]
      BY <1>4, <1>5, <2>2 DEF HistoryInv, Serialized
    <3> QED BY <1>1, <3>1 DEF TransactionFits, Due, Moved, Entries, Items, Left
  <2> QED BY <2>1, <2>2
<1>6. ASSUME NEW t \in Slots, req'[t].at = "begin"
      PROVE  req'[t].to \in Transitions[req'[t].from]
  BY <1>4, <1>6 DEF HistoryInv, Serialized
<1>7. ASSUME NEW t \in Slots, NEW u \in Slots, t # u, InTx(t)', InTx(u)'
      PROVE  RowsOf(req'[t]) \cap RowsOf(req'[u]) = {}
  <2>1. CASE t = s
    BY <1>4, <1>7, <2>1
  <2>2. CASE u = s
    BY <1>4, <1>7, <2>2
  <2>3. CASE t # s /\ u # s
    BY <1>4, <1>7, <2>3 DEF HistoryInv, Serialized
  <2> QED BY <2>1, <2>2, <2>3
<1>8. Serialized'
  BY <1>5, <1>6, <1>7 DEF Serialized, RowsOf
<1> QED BY <1>2, <1>3, <1>8 DEF HistoryInv

\* A transaction that goes on writes the same document and still fits.
LEMMA GoesOnFits ==
    ASSUME TypeOK, HistoryInv, NEW s \in Slots, Quiet(s), InTx(s), InTx(s)',
           req'[s].d = req[s].d, req'[s].to = req[s].to,
           req'[s].todo \cup req'[s].held = req[s].todo \cup req[s].held,
           req'[s].todo \cap req'[s].held = {},
           req'[s].at = "reserve" => req'[s].p \in req'[s].todo
    PROVE  HistoryInv'
<1>1. TransactionFits(s)
  BY DEF HistoryInv, Serialized
<1>2. TransactionFits(s)'
  BY <1>1 DEF TransactionFits, Due, Moved, Entries, Items, Left, Quiet
<1>3. \A t \in Slots : t # s /\ InTx(t) => RowsOf(req'[s]) \cap RowsOf(req[t]) = {}
  BY DEF HistoryInv, Serialized, RowsOf
<1>4. req'[s].at # "begin"
  BY DEF InTx
<1> QED BY <1>2, <1>3, <1>4, QuietFits

LEMMA ApplyFits ==
    ASSUME TypeOK, HistoryInv, NEW s \in Slots, InTx(s), NEW p \in req[s].todo,
           UNCHANGED <<stock, listed, ledger, doc>>, Apply(s, p, stock[p])
    PROVE  HistoryInv'
<1> DEFINE n == [req[s].new EXCEPT ![p] = stock[p] + Signed(req[s].d, p)]
<1>1. req'[s] = [at |-> "move", d |-> req[s].d, to |-> req[s].to,
                 todo |-> req[s].todo \ {p}, held |-> req[s].held \cup {p}, new |-> n]
  BY DEF Apply, Goto, TypeOK
<1>2. Quiet(s)
  BY <1>1 DEF Quiet, Apply, Goto
<1>3. req[s].todo \cap req[s].held = {}
  BY DEF HistoryInv, Serialized, TransactionFits
<1> HIDE DEF n
<1>4. /\ InTx(s)' /\ req'[s].d = req[s].d /\ req'[s].to = req[s].to
      /\ req'[s].todo = req[s].todo \ {p} /\ req'[s].held = req[s].held \cup {p}
      /\ req'[s].at = "move"
  BY <1>1 DEF InTx
<1>5. /\ req'[s].todo \cup req'[s].held = req[s].todo \cup req[s].held
      /\ req'[s].todo \cap req'[s].held = {}
  BY <1>3, <1>4
<1> QED BY <1>2, <1>4, <1>5, GoesOnFits

\* The guarded write of a document.
LEMMA BeginFits ==
    ASSUME TypeOK, HistoryInv, NEW s \in Slots, Begin(s)
    PROVE  HistoryInv'
<1> DEFINE d == req[s].d
           to == req[s].to
           n == [p \in Products |-> 0]
<1>1. req'[s] = [at |-> "move", d |-> d, to |-> to, todo |-> Due(d, req[s].from, to),
                 held |-> {}, new |-> n]
      /\ Quiet(s)
  BY DEF Begin, Goto, TypeOK, Quiet
<1>2. req[s].from = doc[d] /\ to \in Transitions[doc[d]]
  BY DEF Begin, Still, HistoryInv, Serialized
<1> HIDE DEF n
<1>3. /\ req'[s].d = d /\ req'[s].to = to /\ req'[s].todo = Due(d, doc[d], to)
      /\ req'[s].held = {} /\ req'[s].at = "move" /\ InTx(s)'
  BY <1>1, <1>2 DEF InTx
<1>4. TransactionFits(s)'
  BY <1>1, <1>2, <1>3
    DEF TransactionFits, Due, Moved, Entries, Items, Left, Quiet
<1>5. \A t \in Slots : t # s /\ InTx(t) => RowsOf(req'[s]) \cap RowsOf(req[t]) = {}
  BY <1>3 DEF Begin, Busy, RowsOf
<1> QED BY <1>1, <1>3, <1>4, <1>5, QuietFits

\* A movement is an entry of its own document and of no other.
LEMMA EntriesAppend ==
    ASSUME NEW d \in Documents, NEW p \in Products, NEW m,
           ledger[p] \in Seq(Movement), ledger'[p] = Append(ledger[p], m)
    PROVE  Entries(d, p)' = IF m.ref = d THEN Entries(d, p) \cup {Len(ledger[p]) + 1}
                                         ELSE Entries(d, p)
<1> DEFINE n == Len(ledger[p])
<1>1. n \in Nat /\ Len(ledger'[p]) = n + 1 /\ ledger'[p][n + 1] = m
      /\ \A i \in 1..n : ledger'[p][i] = ledger[p][i]
  OBVIOUS
<1> HIDE DEF n
<1>2. 1..(n + 1) = 1..n \cup {n + 1}
  BY <1>1
<1>3. Entries(d, p)' = {i \in 1..(n + 1) : ledger'[p][i].ref = d}
  BY <1>1 DEF Entries
<1>4. Entries(d, p) = {i \in 1..n : ledger[p][i].ref = d}
  BY DEF Entries, n
<1>5. {i \in 1..n : ledger'[p][i].ref = d} = {i \in 1..n : ledger[p][i].ref = d}
  BY <1>1
<1>6. CASE m.ref = d
  BY <1>1, <1>2, <1>3, <1>4, <1>5, <1>6 DEF n
<1>7. CASE m.ref # d
  BY <1>1, <1>2, <1>3, <1>4, <1>5, <1>7
<1> QED BY <1>6, <1>7

\* A count is no document's movement.
LEMMA CountFits ==
    ASSUME TypeOK, HistoryInv, NEW s \in Slots, Count(s)
    PROVE  HistoryInv'
<1>1. Goto(s, Idle) /\ doc' = doc
  BY DEF Count
<1>2. req[s].p \in Products
  BY Carries, ProductsAssumption DEF Count
<1>3. ASSUME NEW d \in Documents, NEW p \in Products
      PROVE  Entries(d, p)' = Entries(d, p)
  <2>1. CASE ledger'[p] = ledger[p]
    BY <2>1 DEF Entries
  <2>2. CASE p = req[s].p /\ ledger' # ledger
    <3> DEFINE m == [qty |-> req[s].delta, after |-> stock[p] + req[s].delta,
                     ref |-> "count"]
    <3>1. ledger' = [ledger EXCEPT ![p] = Append(ledger[p], m)]
      BY <2>2 DEF Count
    <3>2. ledger'[p] = Append(ledger[p], m) /\ ledger[p] \in Seq(Movement)
      BY <3>1 DEF TypeOK
    <3>3. m.ref # d
      BY DocumentsAssumption
    <3> HIDE DEF m
    <3> QED BY <3>2, <3>3, EntriesAppend
  <2>3. CASE p # req[s].p
    BY <2>1, <2>3, <1>2 DEF Count, TypeOK
  <2> QED BY <2>1, <2>2, <2>3
<1>4. Kinds'
  BY <1>1 DEF HistoryInv, Kinds
<1>5. \A d \in Documents : Moved(d)' = Moved(d)
  BY <1>3 DEF Moved
<1>6. \A d \in Documents : DocumentFits(d)'
  BY <1>1, <1>3, <1>5 DEF HistoryInv, DocumentFits, Once, Whole, Modern, Items
<1>7. NothingBackBeforeItLeft'
  BY <1>5, DocumentsAssumption DEF HistoryInv, NothingBackBeforeItLeft, Documents
<1>8. Serialized'
  <2>1. \A t \in Slots : InTx(t)' => t # s /\ InTx(t) /\ req'[t] = req[t]
    BY <1>1, ToIdle
  <2>2. ASSUME NEW t \in Slots, InTx(t)' PROVE TransactionFits(t)'
    <3>1. TransactionFits(t) /\ req'[t] = req[t] /\ req[t].d \in Documents
      BY <2>1, <2>2, Transaction DEF HistoryInv, Serialized
    <3>2. Moved(req[t].d)' = Moved(req[t].d)
      BY <1>5, <3>1
    <3> QED BY <1>1, <3>1, <3>2 DEF TransactionFits, Due, Items, Left
  <2>3. \A t \in Slots : req'[t].at = "begin" => req'[t] = req[t]
    BY <1>1, ToIdle DEF Idle
  <2>4. \A t, u \in Slots : t # u /\ InTx(t)' /\ InTx(u)' =>
           RowsOf(req'[t]) \cap RowsOf(req'[u]) = {}
    BY <2>1 DEF HistoryInv, Serialized
  <2> QED BY <2>2, <2>3, <2>4 DEF Serialized, HistoryInv, RowsOf
<1> QED BY <1>4, <1>6, <1>7, <1>8 DEF HistoryInv

\* What a commit adds to the entries: those of its own document, for the rows held.
LEMMA CommitEntries ==
    ASSUME TypeOK, NEW s \in Slots, Commit(s), NEW d \in Documents, NEW p \in Products
    PROVE  Entries(d, p)' = IF d = req[s].d /\ p \in req[s].held
                              THEN Entries(d, p) \cup {Len(ledger[p]) + 1}
                              ELSE Entries(d, p)
<1>1. Written(s, p) /\ ledger[p] \in Seq(Movement)
  BY CommitWrites DEF TypeOK
<1>2. CASE p \in req[s].held
  <2> DEFINE m == [qty |-> Signed(req[s].d, p), after |-> req[s].new[p],
                   ref |-> req[s].d]
  <2>1. ledger'[p] = Append(ledger[p], m) /\ m.ref = req[s].d
    BY <1>1, <1>2 DEF Written
  <2> HIDE DEF m
  <2> QED BY <1>1, <1>2, <2>1, EntriesAppend
<1>3. CASE p \notin req[s].held
  BY <1>1, <1>3 DEF Written, Entries
<1> QED BY <1>2, <1>3

\* What a commit writes of the documents: its own status, and perhaps CANCELLED for
\* the order of a refund.
LEMMA CommitDocuments ==
    ASSUME TypeOK, Kinds, NEW s \in Slots, Commit(s),
           req[s].to \in Transitions[doc[req[s].d]]
    PROVE  /\ doc'[req[s].d] = req[s].to
           /\ \A e \in Documents : e # req[s].d =>
                 \/ doc'[e] = doc[e]
                 \/ /\ req[s].to = "APPROVED" /\ e = OrderOf[req[s].d]
                    /\ e \in Orders /\ doc'[e] = "CANCELLED"
           /\ req[s].to = "APPROVED" => req[s].d \in Refunds
<1> DEFINE d == req[s].d
<1>1. d \in Documents
  BY Transaction DEF Commit, InTx
<1>2. req[s].to = "APPROVED" => d \in Refunds
  <2>1. SUFFICES ASSUME req[s].to = "APPROVED" PROVE d \in Refunds
    OBVIOUS
  <2>2. doc[d] = "PENDING"
    BY <1>1, <2>1 DEF TypeOK, Transitions, Status
  <2> QED BY <1>1, <2>2 DEF Kinds, Documents
<1>3. doc' \in Settled(d, req[s].to)
  BY DEF Commit
<1>4. CASE doc' = [doc EXCEPT ![d] = req[s].to]
  BY <1>1, <1>2, <1>4 DEF TypeOK
<1>5. CASE /\ req[s].to = "APPROVED"
           /\ doc' = [doc EXCEPT ![d] = req[s].to, ![OrderOf[d]] = "CANCELLED"]
  <2>1. d \in Refunds /\ OrderOf[d] \in Orders /\ d # OrderOf[d]
        /\ OrderOf[d] \in Documents
    BY <1>2, <1>5, DocumentsAssumption DEF Documents
  <2> QED BY <1>1, <1>5, <2>1 DEF TypeOK
<1> QED BY <1>3, <1>4, <1>5 DEF Settled

\* A transaction that moves something moves all its document has, for the first time.
LEMMA DueOnce ==
    ASSUME TypeOK, HistoryInv, NEW s \in Slots, Commit(s)
    PROVE  /\ req[s].held = Due(req[s].d, doc[req[s].d], req[s].to)
           /\ req[s].held # {} => /\ req[s].held = Items(req[s].d)
                                  /\ ~Moved(req[s].d)
<1> DEFINE d == req[s].d
           to == req[s].to
<1>1. /\ InTx(s) /\ d \in Documents /\ doc[d] \in Status /\ to \in Transitions[doc[d]]
      /\ req[s].held = Due(d, doc[d], to)
  BY Transaction DEF Commit, InTx, HistoryInv, Serialized, TransactionFits, TypeOK
<1>2. DocumentFits(d)
  BY <1>1 DEF HistoryInv
<1>3. ASSUME Due(d, doc[d], to) # {} PROVE Due(d, doc[d], to) = Items(d) /\ ~Moved(d)
  <2>1. Due(d, doc[d], to) = Items(d)
    BY <1>3 DEF Due
  <2>2. \/ to \in {"READY", "RECEIVED", "APPROVED"}
        \/ ~Moved(d)
    BY <1>3 DEF Due
  <2>3. to \in {"READY", "RECEIVED", "APPROVED"} => doc[d] \in Fresh
    BY <1>1 DEF Transitions, Status, Fresh
  <2> QED BY <1>2, <2>1, <2>2, <2>3 DEF DocumentFits
<1> QED BY <1>1, <1>3

\* The document a transaction commits.
LEMMA CommitFitsOwn ==
    ASSUME TypeOK, HistoryInv, NEW s \in Slots, Commit(s),
           NEW d \in Documents, d = req[s].d
    PROVE  DocumentFits(d)'
<1> DEFINE to == req[s].to
<1>1. /\ InTx(s) /\ d \in Documents /\ doc[d] \in Status /\ to \in Transitions[doc[d]]
      /\ req[s].held \in SUBSET Products
  BY Transaction DEF Commit, InTx, HistoryInv, Serialized, TransactionFits, TypeOK
<1>2. DocumentFits(d) /\ Kinds
  BY <1>1 DEF HistoryInv
<1>3. doc'[d] = to
  BY <1>1, <1>2, CommitDocuments
<1>4. \A p \in Products : Entries(d, p)' =
         IF p \in req[s].held THEN Entries(d, p) \cup {Len(ledger[p]) + 1}
                              ELSE Entries(d, p)
  BY <1>1, CommitEntries
<1>5. Items(d) \subseteq Products
  BY DEF Items
<1>6. CASE req[s].held = {}
  <2>1. \A p \in Products : Entries(d, p)' = Entries(d, p)
    BY <1>4, <1>6
  <2>2. Moved(d)' = Moved(d) /\ Once(d)' = Once(d)
    BY <2>1 DEF Moved, Once
  <2>3. Whole(d)' = Whole(d)
    BY <1>5, <2>1 DEF Whole, Items
  <2>4. Due(d, doc[d], to) = {}
    BY <1>6, DueOnce
  <2>5. to \in {"READY", "RECEIVED"} => Whole(d)
    BY <2>4 DEF Due, Whole
  <2>6. to = "COMPLETED" => Whole(d)
    <3> SUFFICES ASSUME to = "COMPLETED" PROVE Whole(d)
      OBVIOUS
    <3>1. doc[d] = "READY"
      BY <1>1 DEF Transitions, Status
    <3>2. Moved(d) \/ Items(d) = {}
      BY <2>4, <3>1 DEF Due
    <3> QED BY <1>2, <3>2 DEF DocumentFits, Whole
  <2>7. to \in Fresh => doc[d] \in Fresh
    BY <1>1 DEF Transitions, Status, Fresh
  <2> QED BY <1>2, <1>3, <2>2, <2>3, <2>5, <2>6, <2>7 DEF DocumentFits, Modern, Fresh
<1>7. CASE req[s].held # {}
  <2>1. req[s].held = Items(d) /\ ~Moved(d)
    BY <1>7, DueOnce
  <2>2. \A p \in Products : Entries(d, p) = {}
    BY <2>1 DEF Moved
  <2>3. \A p \in Products : Entries(d, p)' =
           IF p \in Items(d) THEN {Len(ledger[p]) + 1} ELSE {}
    BY <1>4, <2>1, <2>2
  <2>4. Once(d)'
    BY <2>3 DEF Once
  <2>5. Whole(d)'
    BY <1>5, <2>3 DEF Whole, Items
  <2>6. to \notin Fresh
    <3>1. Due(d, doc[d], to) # {}
      BY <1>7, DueOnce
    <3>2. to \in {"READY", "RECEIVED", "COMPLETED", "APPROVED"}
      BY <3>1 DEF Due
    <3> QED BY <3>2 DEF Fresh
  <2> QED BY <1>3, <2>4, <2>5, <2>6 DEF DocumentFits
<1> QED BY <1>6, <1>7

\* The documents a transaction does not commit.
LEMMA CommitFitsOthers ==
    ASSUME TypeOK, HistoryInv, NEW s \in Slots, Commit(s),
           NEW e \in Documents, e # req[s].d
    PROVE  DocumentFits(e)' /\ Moved(e)' = Moved(e)
<1>1. DocumentFits(e) /\ Kinds /\ req[s].to \in Transitions[doc[req[s].d]]
  BY DEF HistoryInv, Serialized, TransactionFits, Commit, InTx
<1>2. \A p \in Products : Entries(e, p)' = Entries(e, p)
  BY CommitEntries
<1>3. Moved(e)' = Moved(e) /\ Once(e)' = Once(e)
  BY <1>2 DEF Moved, Once
<1>4. Whole(e)' = Whole(e)
  BY <1>2 DEF Whole, Items
<1>5. doc'[e] = doc[e] \/ doc'[e] = "CANCELLED"
  BY <1>1, CommitDocuments
<1> QED BY <1>1, <1>3, <1>4, <1>5 DEF DocumentFits, Modern, Fresh

LEMMA CommitKinds ==
    ASSUME TypeOK, HistoryInv, NEW s \in Slots, Commit(s)
    PROVE  Kinds'
<1> DEFINE d == req[s].d
<1>1. d \in Documents /\ Kinds /\ req[s].to \in Transitions[doc[d]] /\ doc[d] \in Status
  BY Transaction
    DEF HistoryInv, Serialized, TransactionFits, Commit, InTx, TypeOK
<1>2. /\ doc'[d] = req[s].to
      /\ \A e \in Documents : e # d =>
            doc'[e] = doc[e] \/ (e \in Orders /\ doc'[e] = "CANCELLED")
  BY <1>1, CommitDocuments
<1>3. \A o \in Orders : doc'[o] \in {"PROCESSING", "READY", "COMPLETED", "CANCELLED"}
  BY <1>1, <1>2 DEF Kinds, Documents, Transitions, Status
<1>4. \A u \in Purchases : doc'[u] \in {"DRAFT", "RECEIVED", "CANCELLED"}
  BY <1>1, <1>2, DocumentsAssumption DEF Kinds, Documents, Transitions, Status
<1>5. \A r \in Refunds : doc'[r] \in {"PENDING", "APPROVED", "REJECTED"}
  BY <1>1, <1>2, DocumentsAssumption DEF Kinds, Documents, Transitions, Status
<1> QED BY <1>3, <1>4, <1>5 DEF Kinds

\* A refund moves stock only after its order has.
LEMMA CommitGivesBack ==
    ASSUME TypeOK, HistoryInv, NEW s \in Slots, Commit(s)
    PROVE  NothingBackBeforeItLeft'
<1> DEFINE d == req[s].d
<1> SUFFICES ASSUME NEW r \in Refunds, Moved(r)', OrderOf[r] \notin LegacyOrders
             PROVE  Moved(OrderOf[r])'
  BY DEF NothingBackBeforeItLeft
<1>1. d \in Documents /\ Kinds /\ req[s].to \in Transitions[doc[d]] /\ doc[d] \in Status
  BY Transaction
    DEF HistoryInv, Serialized, TransactionFits, Commit, InTx, TypeOK
<1>2. /\ r \in Documents /\ OrderOf[r] \in Orders /\ OrderOf[r] \in Documents
      /\ OrderOf[r] \notin Refunds
  BY DocumentsAssumption DEF Documents
<1>3. Moved(OrderOf[r]) => Moved(OrderOf[r])'
  BY <1>2, CommitEntries DEF Moved
<1>4. CASE r # d
  BY <1>2, <1>3, <1>4, CommitFitsOthers DEF HistoryInv, NothingBackBeforeItLeft
<1>5. CASE r = d
  <2>1. doc[d] = "PENDING" /\ ~Moved(d)
    <3>1. doc[d] = "PENDING"
      BY <1>1, <1>5 DEF Kinds, Transitions, Status
    <3> QED BY <1>1, <3>1 DEF HistoryInv, DocumentFits, Fresh
  <2>2. req[s].held # {}
    BY <1>1, <1>5, <2>1, CommitEntries DEF Moved
  <2>3. req[s].held = Items(d) /\ Due(d, doc[d], req[s].to) # {}
    BY <2>2, DueOnce
  <2>4. req[s].to \in {"APPROVED", "REJECTED"}
    BY <1>1, <2>1 DEF Transitions, Status
  <2>5. Left(OrderOf[d])
    BY <2>1, <2>3, <2>4 DEF Due
  <2>6. Whole(OrderOf[r])
    BY <1>2, <1>5, <2>5 DEF HistoryInv, DocumentFits, Modern, Left
  <2>7. PICK p \in Products : Quantity[r][p] > 0
    BY <1>5, <2>2, <2>3 DEF Items
  <2>8. p \in Items(OrderOf[r])
    <3>1. /\ Quantity[r][p] \in Nat /\ Quantity[OrderOf[r]][p] \in Nat
          /\ Quantity[r][p] <= Quantity[OrderOf[r]][p]
      BY <1>2, DocumentsAssumption
    <3> QED BY <2>7, <3>1 DEF Items
  <2> QED BY <1>3, <2>6, <2>8 DEF Whole, Moved
<1> QED BY <1>4, <1>5

\* The other transactions write other documents, so what was due of theirs still is.
LEMMA CommitSerialized ==
    ASSUME TypeOK, HistoryInv, NEW s \in Slots, Commit(s)
    PROVE  Serialized'
<1> DEFINE d == req[s].d
<1>0. InTx(s) /\ Goto(s, Idle)
  BY DEF Commit, InTx
<1>1. d \in Documents /\ Kinds /\ req[s].to \in Transitions[doc[d]]
  BY <1>0, Transaction DEF HistoryInv, Serialized, TransactionFits
<1>2. \A t \in Slots : InTx(t)' => t # s /\ InTx(t) /\ req'[t] = req[t]
  BY <1>0, ToIdle
<1>3. \A e \in Documents : e \notin RowsOf(req[s]) => doc'[e] = doc[e]
  BY <1>1, CommitDocuments DEF RowsOf
<1>4. ASSUME NEW t \in Slots, InTx(t)' PROVE TransactionFits(t)'
  <2> DEFINE e == req[t].d
  <2>1. /\ t # s /\ InTx(t) /\ req'[t] = req[t] /\ TransactionFits(t) /\ e \in Documents
        /\ RowsOf(req[s]) \cap RowsOf(req[t]) = {}
    BY <1>0, <1>2, <1>4, Transaction DEF HistoryInv, Serialized
  <2>2. e # d /\ doc'[e] = doc[e]
    BY <1>3, <2>1 DEF RowsOf
  <2>3. Moved(e)' = Moved(e)
    BY <2>1, <2>2, CommitFitsOthers
  <2>4. req[t].to = "APPROVED" => Left(OrderOf[e])' = Left(OrderOf[e])
    <3> SUFFICES ASSUME req[t].to = "APPROVED"
                 PROVE  doc'[OrderOf[e]] = doc[OrderOf[e]]
      BY <2>1 DEF Left
    <3>1. doc[e] = "PENDING"
      BY <2>1 DEF TransactionFits, Transitions, Status, TypeOK
    <3>2. e \in Refunds
      BY <1>1, <2>1, <3>1 DEF Kinds, Documents
    <3>3. OrderOf[e] \in Documents /\ OrderOf[e] \in RowsOf(req[t])
      BY <3>2, DocumentsAssumption DEF Documents, RowsOf
    <3> QED BY <1>3, <2>1, <3>3
  <2>5. Due(e, doc[e], req[t].to)' = Due(e, doc[e], req[t].to)
    BY <2>1, <2>2, <2>3, <2>4 DEF Due, Items
  <2> QED BY <2>1, <2>2, <2>5 DEF TransactionFits
<1>5. \A t \in Slots : req'[t].at = "begin" => req'[t] = req[t]
  BY <1>0, ToIdle DEF Idle
<1>6. \A t, u \in Slots : t # u /\ InTx(t)' /\ InTx(u)' =>
         RowsOf(req'[t]) \cap RowsOf(req'[u]) = {}
  BY <1>2 DEF HistoryInv, Serialized
<1> QED BY <1>4, <1>5, <1>6 DEF Serialized, HistoryInv, RowsOf

LEMMA CommitFits ==
    ASSUME TypeOK, HistoryInv, NEW s \in Slots, Commit(s)
    PROVE  HistoryInv'
<1>1. \A e \in Documents : DocumentFits(e)'
  BY CommitFitsOwn, CommitFitsOthers
<1> QED BY <1>1, CommitKinds, CommitGivesBack, CommitSerialized DEF HistoryInv

LEMMA StepFits ==
    ASSUME TypeOK, HistoryInv, NEW s \in Slots, Step(s)
    PROVE  HistoryInv'
<1>1. CASE Read(s)
  <2>1. PICK d \in Documents :
          \E to \in Transitions[doc[d]] :
             Goto(s, [at |-> "begin", d |-> d, from |-> doc[d], to |-> to])
    BY <1>1 DEF Read
  <2>2. PICK to \in Transitions[doc[d]] :
          Goto(s, [at |-> "begin", d |-> d, from |-> doc[d], to |-> to])
    BY <2>1
  <2>3. req'[s] = [at |-> "begin", d |-> d, from |-> doc[d], to |-> to] /\ Quiet(s)
    BY <1>1, <2>2 DEF Goto, TypeOK, Quiet, Read
  <2> QED BY <2>2, <2>3, QuietFits DEF InTx
<1>2. CASE Begin(s)
  BY <1>2, BeginFits
<1>3. CASE LockRow(s)
  BY <1>3, ApplyFits DEF LockRow, InTx
<1>4. CASE FindNoRow(s)
  <2>1. PICK p \in req[s].todo \ listed :
          Goto(s, [at |-> "reserve", d |-> req[s].d, to |-> req[s].to,
                   todo |-> req[s].todo, held |-> req[s].held,
                   new |-> req[s].new, p |-> p])
    BY <1>4 DEF FindNoRow
  <2>2. /\ req'[s] = [at |-> "reserve", d |-> req[s].d, to |-> req[s].to,
                      todo |-> req[s].todo, held |-> req[s].held,
                      new |-> req[s].new, p |-> p]
        /\ Quiet(s) /\ InTx(s)
    BY <1>4, <2>1 DEF FindNoRow, Goto, TypeOK, Quiet, InTx
  <2>3. req[s].todo \cap req[s].held = {}
    BY <2>2 DEF HistoryInv, Serialized, TransactionFits
  <2>4. InTx(s)'
    BY <2>2 DEF InTx
  <2> QED BY <2>1, <2>2, <2>3, <2>4, GoesOnFits
<1>5. CASE ReserveRow(s)
  <2>1. InTx(s) /\ req[s].p \in req[s].todo
    BY <1>5 DEF ReserveRow, InTx, HistoryInv, Serialized, TransactionFits
  <2> QED BY <1>5, <2>1, ApplyFits DEF ReserveRow, Relocked
<1>6. CASE Commit(s)
  BY <1>6, CommitFits
<1>7. CASE GiveUp(s)
  <2>1. req'[s] = Idle /\ Quiet(s) /\ ~InTx(s)'
    BY <1>7, ToIdle DEF GiveUp, Goto, Quiet, TypeOK
  <2> QED BY <2>1, QuietFits DEF Idle
<1>8. CASE CountStart(s)
  <2>1. PICK p \in Counted, level \in Levels :
          Goto(s, [at |-> "count", p |-> p, level |-> level, delta |-> level - stock[p]])
    BY <1>8 DEF CountStart
  <2>2. /\ req'[s] = [at |-> "count", p |-> p, level |-> level, delta |-> level - stock[p]]
        /\ Quiet(s)
    BY <1>8, <2>1 DEF CountStart, Goto, TypeOK, Quiet
  <2> QED BY <2>2, QuietFits DEF InTx
<1>9. CASE Count(s)
  BY <1>9, CountFits
<1> QED BY <1>1, <1>2, <1>3, <1>4, <1>5, <1>6, <1>7, <1>8, <1>9 DEF Step

LEMMA HistoryStutters == HistoryInv /\ UNCHANGED vars => HistoryInv'
<1> SUFFICES ASSUME HistoryInv, UNCHANGED vars PROVE HistoryInv'
  OBVIOUS
<1>1. Kinds' /\ NothingBackBeforeItLeft'
  BY DEF vars, HistoryInv, Kinds, NothingBackBeforeItLeft, Moved, Entries
<1>2. \A d \in Documents : DocumentFits(d)'
  BY DEF vars, HistoryInv, DocumentFits, Once, Whole, Moved, Entries, Items, Modern
<1>3. \A s \in Slots : InTx(s)' => TransactionFits(s)'
  BY DEF vars, HistoryInv, Serialized, InTx, TransactionFits, Due, Moved, Entries,
    Items, Left
<1>4. Serialized'
  BY <1>3 DEF vars, HistoryInv, Serialized, InTx, RowsOf
<1> QED BY <1>1, <1>2, <1>4 DEF HistoryInv

\* The history invariant, which the two theorems below are read from.
THEOREM HistoryKept == Spec => []HistoryInv
<1>1. LedgerInv /\ HistoryInv /\ [Next]_vars => HistoryInv'
  BY StepFits, HistoryStutters DEF Next, LedgerInv
<1> QED BY HistoryStart, <1>1, LedgerKept, PTL DEF Spec

\* A document moves each of its products at most once and all of them together,
\* and has moved them when it says so, however many requests handle it at once.
THEOREM EachMovedOnceAndWhole == Spec => []MovedOnceAndWhole
BY HistoryKept, HistoryShows, PTL

\* A refund puts stock back only after its order took it, for any refunds and
\* orders but those that were READY before stock left at READY.
THEOREM NothingComesBackFirst == Spec => []NothingBackBeforeItLeft
BY HistoryKept, HistoryShows, PTL

=============================================================================
