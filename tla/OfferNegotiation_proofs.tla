----------------------- MODULE OfferNegotiation_proofs -----------------------
(***************************************************************************)
(* For any numbers of offers and overlapping requests: the negotiation     *)
(* goes on as if its operations were serialized, one offer is pending at a *)
(* time, and the messages of the thread tell the state of every offer.     *)
(*                                                                         *)
(* The argument is about locks.  A transaction that creates an offer holds *)
(* the conversation, and the offers it is about to end; one that answers   *)
(* holds its offer.  So what a transaction has read of the rows it is      *)
(* about to write still is so when it writes.                              *)
(*                                                                         *)
(* The same locks tell who waits for whom: every cycle of transactions that*)
(* wait passes the one that holds the conversation, and is two of them.    *)
(***************************************************************************)
EXTENDS OfferNegotiation, FiniteSetTheorems, TLAPS

Steps == {"idle", "thread", "expiry", "parent", "write", "offer", "resolve"}

Transaction == [at: Steps, kind: Kinds, actor: Participants, target: Offers \cup {None},
                began: SUBSET Offers, stale: SUBSET Offers]

Types ==
    /\ offer \in [Offers -> [status: Statuses \cup {"none"}, by: Participants]]
    /\ message \in [Offers -> Statuses \cup {"none"}]
    /\ events \in [Offers -> SUBSET Statuses]
    /\ overdue \in SUBSET Offers
    /\ tx \in [Requests -> Transaction]
    /\ thread \in Requests \cup {None}
    /\ held \in [Offers -> Requests \cup {None}]

\* What a transaction at each step is, and what it holds.
Holds(x) ==
    /\ tx[x].at \in {"expiry", "parent", "write"} => thread = x
    /\ tx[x].at \in {"thread", "expiry", "parent", "write"} => Creating(tx[x].kind)
    /\ tx[x].at \in {"offer", "resolve"} =>
         tx[x].kind \in {"respond", "withdraw"} /\ tx[x].target \in Offers
    /\ tx[x].at # "idle" =>
         /\ tx[x].kind = "offer" => tx[x].target = None
         /\ tx[x].kind = "counter" => tx[x].target \in Offers

\* The offers it expires stay pending until it does.
Expires(x) ==
    /\ tx[x].at \notin {"parent", "write"} => tx[x].stale = {}
    /\ \A o \in tx[x].stale : o \in Pending /\ held[o] = x

\* A creation that checked the offers knows every pending one.
Creates(x) ==
    tx[x].at = "write" =>
        /\ Pending \ tx[x].stale \subseteq {tx[x].target}
        /\ tx[x].kind = "counter" =>
             /\ tx[x].target \in Pending /\ held[tx[x].target] = x
             /\ offer[tx[x].target].by # tx[x].actor

\* An answer that checked its offer can still give it.
Answers(x) ==
    tx[x].at = "resolve" =>
        tx[x].target \in Pending /\ held[tx[x].target] = x /\ Entitled(x)

OneAtMost == \A o, q \in Pending : o = q

LockInv ==
    /\ Types
    /\ \A x \in Requests : Holds(x) /\ Expires(x) /\ Creates(x) /\ Answers(x)
    /\ OneAtMost
    /\ ThreadTellsTheOffer

-----------------------------------------------------------------------------
(* Steps that change no offer.                                             *)

\* A transaction that moves on and takes rows, or ends and gives its rows back.
Moves(x) ==
    /\ UNCHANGED <<rows, overdue>>
    /\ \A y \in Requests \ {x} : tx'[y] = tx[y]
    /\ thread' = thread \/ (thread = None /\ thread' = x) \/ (thread = x /\ thread' = None)
    /\ \A o \in Offers : held[o] \notin {None, x} => held'[o] = held[o]

LEMMA StepsAreTyped ==
    ASSUME Types, NEW x \in Requests, NEW at \in Steps, NEW stale \in SUBSET Offers,
           tx' = [tx EXCEPT ![x].at = at, ![x].stale = stale]
    PROVE  tx' \in [Requests -> Transaction]
<1> DEFINE r == [tx[x] EXCEPT !.at = at, !.stale = stale]
<1>1. tx[x] \in Transaction /\ tx \in [Requests -> Transaction]
  BY DEF Types
<1>2. r \in Transaction
  BY <1>1 DEF Transaction
<1>3. tx' = [tx EXCEPT ![x] = r]
  BY <1>1
<1> HIDE DEF r
<1> QED
  BY <1>1, <1>2, <1>3

LEMMA GotoIsTyped ==
    ASSUME Types, NEW x \in Requests, NEW at \in Steps, tx' = [tx EXCEPT ![x].at = at]
    PROVE  tx' \in [Requests -> Transaction]
<1>1. tx[x].stale \in SUBSET Offers
  BY DEF Types, Transaction
<1>2. tx' = [tx EXCEPT ![x].at = at, ![x].stale = tx[x].stale]
  BY DEF Types, Transaction
<1> QED
  BY <1>1, <1>2, StepsAreTyped

\* What the other transactions rely on is left to them.
LEMMA OthersKeepTheirs ==
    ASSUME LockInv, NEW x \in Requests, Moves(x), NEW y \in Requests, y # x
    PROVE  (Holds(y) /\ Expires(y) /\ Creates(y) /\ Answers(y))'
<1> USE NegotiationAssumption
<1>1. tx'[y] = tx[y] /\ offer' = offer /\ Pending' = Pending
  BY DEF Moves, rows, Pending
<1>2. Holds(y) /\ Expires(y) /\ Creates(y) /\ Answers(y) /\ Types
  BY DEF LockInv
<1>3. thread = y => thread' = y
  BY DEF Moves
<1>4. \A o \in Offers : held[o] = y => held'[o] = y
  BY DEF Moves
<1>5. tx[y].stale \subseteq Offers
  BY <1>2 DEF Types, Transaction
<1>6. Holds(y)'
  BY <1>1, <1>2, <1>3 DEF Holds
<1>7. Expires(y)'
  BY <1>1, <1>2, <1>4, <1>5 DEF Expires
<1>8. Creates(y)'
  BY <1>1, <1>2, <1>4 DEF Creates, Pending
<1>9. Answers(y)'
  BY <1>1, <1>2, <1>4 DEF Answers, Entitled, Pending
<1> QED
  BY <1>6, <1>7, <1>8, <1>9

LEMMA MoveKeepsInv ==
    ASSUME LockInv, NEW x \in Requests, Moves(x), Types',
           (Holds(x) /\ Expires(x) /\ Creates(x) /\ Answers(x))'
    PROVE  LockInv'
<1>1. \A y \in Requests : (Holds(y) /\ Expires(y) /\ Creates(y) /\ Answers(y))'
  BY OthersKeepTheirs
<1>2. OneAtMost' /\ ThreadTellsTheOffer'
  BY DEF LockInv, Moves, rows, OneAtMost, Pending, ThreadTellsTheOffer
<1> QED
  BY <1>1, <1>2 DEF LockInv

\* COMMIT and ROLLBACK leave nothing behind.
LEMMA EndReleases ==
    ASSUME LockInv, NEW x \in Requests, End(x)
    PROVE  /\ tx' \in [Requests -> Transaction]
           /\ thread' \in Requests \cup {None}
           /\ held' \in [Offers -> Requests \cup {None}]
           /\ tx'[x] = Idle
           /\ \A y \in Requests \ {x} : tx'[y] = tx[y]
           /\ thread' = IF thread = x THEN None ELSE thread
           /\ \A o \in Offers : held'[o] = IF held[o] = x THEN None ELSE held[o]
  BY DEF LockInv, Types, Transaction, End, Idle, Steps, Kinds, Participants

LEMMA EndKeepsInv ==
    ASSUME LockInv, NEW x \in Requests, End(x), UNCHANGED <<rows, overdue>>
    PROVE  LockInv'
<1>1. Types'
  BY EndReleases DEF LockInv, Types, rows
<1>2. Moves(x)
  BY EndReleases DEF Moves
<1>3. (Holds(x) /\ Expires(x) /\ Creates(x) /\ Answers(x))'
  BY EndReleases DEF Idle, Holds, Expires, Creates, Answers
<1> QED
  BY <1>1, <1>2, <1>3, MoveKeepsInv

LEMMA BeginKeepsInv ==
    ASSUME LockInv, NEW x \in Requests, NEW kind \in Kinds, NEW p \in Participants,
           Begin(x, kind, p)
    PROVE  LockInv'
<1>1. PICK o \in IF kind = "offer" THEN {None} ELSE {q \in Offers : Exists(q)} :
          tx' = [tx EXCEPT ![x] =
                   [at |-> IF Creating(kind) THEN "thread" ELSE "offer",
                    kind |-> kind, actor |-> p, target |-> o,
                    began |-> overdue \cap Pending, stale |-> {}]]
  BY DEF Begin
<1>2. UNCHANGED <<rows, overdue, locks>>
  BY DEF Begin
<1>3. Types'
  BY <1>1, <1>2 DEF LockInv, Types, Transaction, rows, locks, Creating, Steps, Exists, Pending
<1>4. Moves(x)
  BY <1>1, <1>2 DEF Moves, locks, rows, LockInv, Types
<1>5. (Holds(x) /\ Expires(x) /\ Creates(x) /\ Answers(x))'
  BY <1>1 DEF Creating, Kinds, Holds, Expires, Creates, Answers, LockInv, Types
<1> QED
  BY <1>3, <1>4, <1>5, MoveKeepsInv

LEMMA LockThreadKeepsInv ==
    ASSUME LockInv, NEW x \in Requests, LockThread(x)
    PROVE  LockInv'
<1>0. /\ tx[x].at = "thread" /\ thread = None /\ thread' = x
      /\ tx' = [tx EXCEPT ![x].at = "expiry"]
      /\ UNCHANGED <<rows, overdue, held>>
  BY DEF LockThread, Goto
<1>1. Types'
  BY <1>0, GotoIsTyped DEF LockInv, Types, rows, Steps
<1>2. Moves(x)
  BY <1>0 DEF Moves, LockInv, Types
<1>3. (Holds(x) /\ Expires(x) /\ Creates(x) /\ Answers(x))'
  BY DEF LockThread, Goto, Holds, Expires, Creates, Answers, LockInv, Types
<1> QED
  BY <1>1, <1>2, <1>3, MoveKeepsInv

LEMMA ExpireStaleKeepsInv ==
    ASSUME LockInv, NEW x \in Requests, ExpireStale(x)
    PROVE  LockInv'
<1> DEFINE stale == Pending \cap tx[x].began
<1>1. /\ tx[x].at = "expiry" /\ \A o \in stale : held[o] = None
      /\ held' = [o \in Offers |-> IF o \in stale THEN x ELSE held[o]]
      /\ tx' = [tx EXCEPT ![x].at = "parent", ![x].stale = stale]
      /\ UNCHANGED <<rows, overdue, thread>>
  BY DEF ExpireStale
<1>2. stale \subseteq Offers
  BY DEF Pending
<1> HIDE DEF stale
<1>3. Types'
  BY <1>1, <1>2, StepsAreTyped DEF LockInv, Types, rows, Steps
<1>4. Moves(x)
  BY <1>1, <1>2 DEF Moves, LockInv, Types
<1>5. tx'[x].at = "parent" /\ tx'[x].stale = stale /\ tx'[x].kind = tx[x].kind
      /\ tx'[x].target = tx[x].target
  BY <1>1 DEF LockInv, Types
<1>6. Pending' = Pending
  BY <1>1 DEF Pending, rows
<1>7. Holds(x)'
  BY <1>1, <1>5 DEF Holds, LockInv
<1>8. Expires(x)'
  BY <1>1, <1>2, <1>5, <1>6 DEF Expires, stale
<1>9. (Creates(x) /\ Answers(x))'
  BY <1>5 DEF Creates, Answers
<1> QED
  BY <1>3, <1>4, <1>7, <1>8, <1>9, MoveKeepsInv

LEMMA LockParentKeepsInv ==
    ASSUME LockInv, NEW x \in Requests, LockParent(x)
    PROVE  LockInv'
<1> DEFINE o == tx[x].target
<1>1. CASE o \in Pending \ tx[x].began /\ offer[o].by # tx[x].actor
  <2>1. /\ tx[x].at = "parent" /\ tx[x].kind = "counter" /\ held[o] \in {None, x}
        /\ held' = [held EXCEPT ![o] = x]
        /\ tx' = [tx EXCEPT ![x].at = "write"]
        /\ UNCHANGED <<rows, overdue, thread>>
    BY <1>1 DEF LockParent, Goto
  <2>2. o \in Offers
    BY <1>1 DEF Pending
  <2>3. Types'
    BY <2>1, <2>2, GotoIsTyped DEF LockInv, Types, rows, Steps
  <2>4. Moves(x)
    BY <2>1, <2>2 DEF Moves, LockInv, Types
  <2>5. tx'[x].at = "write" /\ tx'[x].stale = tx[x].stale /\ tx'[x].kind = "counter"
        /\ tx'[x].target = o /\ tx'[x].actor = tx[x].actor
    BY <2>1 DEF LockInv, Types
  <2>6. Pending' = Pending /\ offer' = offer
    BY <2>1 DEF Pending, rows
  <2>7. Holds(x)'
    BY <2>1, <2>2, <2>5 DEF Holds, LockInv, Creating
  <2>8. Expires(x)'
    BY <2>1, <2>2, <2>5, <2>6 DEF Expires, LockInv, Pending, Types
  <2>9. Creates(x)'
    BY <1>1, <2>1, <2>2, <2>5, <2>6 DEF Creates, LockInv, OneAtMost, Types
  <2>10. Answers(x)'
    BY <2>5 DEF Answers
  <2> QED
    BY <2>3, <2>4, <2>7, <2>8, <2>9, <2>10, MoveKeepsInv
<1>2. CASE ~(o \in Pending \ tx[x].began /\ offer[o].by # tx[x].actor)
  BY <1>2, EndKeepsInv DEF LockParent
<1> QED
  BY <1>1, <1>2

LEMMA CheckNonePendingKeepsInv ==
    ASSUME LockInv, NEW x \in Requests, CheckNonePending(x)
    PROVE  LockInv'
<1>1. CASE Pending \ tx[x].stale = {}
  <2>1. /\ tx[x].at = "parent" /\ tx[x].kind = "offer"
        /\ tx' = [tx EXCEPT ![x].at = "write"]
        /\ UNCHANGED <<rows, overdue, locks>>
    BY <1>1 DEF CheckNonePending, Goto
  <2>2. Types'
    BY <2>1, GotoIsTyped DEF LockInv, Types, rows, locks, Steps
  <2>3. Moves(x)
    BY <2>1 DEF Moves, LockInv, Types, locks
  <2>4. tx'[x] = [tx[x] EXCEPT !.at = "write"]
    BY <2>1 DEF LockInv, Types
  <2>5. tx'[x].at = "write" /\ tx'[x].stale = tx[x].stale /\ tx'[x].kind = "offer"
        /\ tx'[x].target = tx[x].target
    BY <2>1, <2>4 DEF LockInv, Types
  <2>6. Pending' = Pending /\ held' = held /\ thread' = thread
    BY <2>1 DEF Pending, rows, locks
  <2>7. Holds(x)'
    BY <2>1, <2>5, <2>6 DEF Holds, LockInv
  <2>8. Expires(x)'
    BY <2>1, <2>5, <2>6 DEF Expires, LockInv
  <2>9. (Creates(x) /\ Answers(x))'
    BY <1>1, <2>5, <2>6 DEF Creates, Answers
  <2> QED
    BY <2>2, <2>3, <2>7, <2>8, <2>9, MoveKeepsInv
<1>2. CASE Pending \ tx[x].stale # {}
  BY <1>2, EndKeepsInv DEF CheckNonePending
<1> QED
  BY <1>1, <1>2

-----------------------------------------------------------------------------
(* Steps that change offers.                                               *)

LEMMA ResolveToKeepsInv ==
    ASSUME LockInv, NEW x \in Requests, NEW o \in Pending, held[o] \in {None, x},
           NEW status \in Statuses, status # "pending", ResolveTo(o, status), End(x),
           UNCHANGED overdue
    PROVE  LockInv'
<1> USE NegotiationAssumption
<1>1. o \in Offers /\ offer[o].status = "pending"
  BY DEF Pending
<1>2. /\ offer' = [offer EXCEPT ![o].status = status]
      /\ message' = [message EXCEPT ![o] = status]
      /\ events' = [events EXCEPT ![o] = @ \cup {status}]
  BY DEF ResolveTo
<1>3. offer' \in [Offers -> [status: Statuses \cup {"none"}, by: Participants]]
  BY <1>1, <1>2 DEF LockInv, Types, Statuses
<1>4. Types'
  BY <1>1, <1>2, <1>3, EndReleases DEF LockInv, Types
<1>5. Pending' = Pending \ {o} /\ \A q \in Offers : offer'[q].by = offer[q].by
  BY <1>1, <1>2 DEF Pending, LockInv, Types
<1>6. (Holds(x) /\ Expires(x) /\ Creates(x) /\ Answers(x))'
  BY EndReleases DEF Idle, Holds, Expires, Creates, Answers
<1>7. ASSUME NEW y \in Requests, y # x
      PROVE  (Holds(y) /\ Expires(y) /\ Creates(y) /\ Answers(y))'
  <2>1. tx'[y] = tx[y] /\ (thread = y => thread' = y)
        /\ \A q \in Offers : held[q] = y => held'[q] = y
    BY <1>7, EndReleases
  <2>2. Holds(y) /\ Expires(y) /\ Creates(y) /\ Answers(y)
    BY DEF LockInv
  <2>3. held[o] # y
    BY <1>7
  <2>4. Pending \subseteq Offers
    BY DEF Pending
  <2>5. Holds(y)'
    BY <2>1, <2>2 DEF Holds
  <2>6. Expires(y)'
    BY <1>5, <2>1, <2>2, <2>3, <2>4 DEF Expires
  <2>7. Creates(y)'
    BY <1>5, <2>1, <2>2, <2>3, <2>4 DEF Creates
  <2>8. Answers(y)'
    BY <1>5, <2>1, <2>2, <2>3, <2>4 DEF Answers, Entitled
  <2> QED
    BY <2>5, <2>6, <2>7, <2>8
<1>8. OneAtMost'
  BY <1>5 DEF LockInv, OneAtMost
<1>9. ThreadTellsTheOffer'
  <2> SUFFICES ASSUME NEW q \in Offers
               PROVE  /\ message'[q] = offer'[q].status
                      /\ offer'[q].status \notin {"none", "expired"} =>
                           events'[q] = {"pending", offer'[q].status}
    BY DEF ThreadTellsTheOffer
  <2>1. CASE q = o
    BY <1>1, <1>2, <2>1 DEF LockInv, Types, ThreadTellsTheOffer
  <2>2. CASE q # o
    BY <1>1, <1>2, <2>2 DEF LockInv, Types, ThreadTellsTheOffer
  <2> QED
    BY <2>1, <2>2
<1> QED
  BY <1>4, <1>6, <1>7, <1>8, <1>9 DEF LockInv

LEMMA LockOfferKeepsInv ==
    ASSUME LockInv, NEW x \in Requests, LockOffer(x)
    PROVE  LockInv'
<1> DEFINE o == tx[x].target
<1>1. tx[x].at = "offer" /\ held[o] = None /\ UNCHANGED overdue
  BY DEF LockOffer
<1>2. CASE o \in Pending /\ Entitled(x) /\ o \in tx[x].began /\ tx[x].kind # "withdraw"
  <2>1. ResolveTo(o, "expired") /\ End(x)
    BY <1>2 DEF LockOffer
  <2> QED
    BY <1>1, <1>2, <2>1, ResolveToKeepsInv DEF Statuses
<1>3. CASE o \in Pending /\ Entitled(x) /\ ~(o \in tx[x].began /\ tx[x].kind # "withdraw")
  <2>1. /\ held' = [held EXCEPT ![o] = x]
        /\ tx' = [tx EXCEPT ![x].at = "resolve"]
        /\ UNCHANGED <<rows, thread>>
    BY <1>3 DEF LockOffer, Goto
  <2>2. o \in Offers
    BY <1>3 DEF Pending
  <2>3. Types'
    BY <1>1, <2>1, <2>2, GotoIsTyped DEF LockInv, Types, rows, Steps
  <2>4. Moves(x)
    BY <1>1, <2>1, <2>2 DEF Moves, LockInv, Types
  <2>5. tx'[x].at = "resolve" /\ tx'[x].stale = tx[x].stale /\ tx'[x].kind = tx[x].kind
        /\ tx'[x].target = o /\ tx'[x].actor = tx[x].actor
    BY <2>1 DEF LockInv, Types
  <2>6. Pending' = Pending /\ offer' = offer /\ held'[o] = x
    BY <2>1, <2>2 DEF Pending, rows, LockInv, Types
  <2>7. Holds(x)'
    BY <1>1, <2>2, <2>5 DEF Holds, LockInv
  <2>8. Expires(x)'
    BY <1>1, <2>5 DEF Expires, LockInv
  <2>9. Creates(x)'
    BY <2>5 DEF Creates
  <2>10. Answers(x)'
    BY <1>3, <2>5, <2>6 DEF Answers, Entitled
  <2> QED
    BY <2>3, <2>4, <2>7, <2>8, <2>9, <2>10, MoveKeepsInv
<1>4. CASE ~(o \in Pending /\ Entitled(x))
  BY <1>1, <1>4, EndKeepsInv DEF LockOffer
<1> QED
  BY <1>2, <1>3, <1>4

LEMMA ResolveKeepsInv ==
    ASSUME LockInv, NEW x \in Requests, Resolve(x)
    PROVE  LockInv'
<1>1. PICK status \in {"withdrawn", "accepted", "declined"} : ResolveTo(tx[x].target, status)
  BY DEF Resolve
<1>2. tx[x].target \in Pending /\ held[tx[x].target] = x
  BY DEF Resolve, LockInv, Answers
<1> QED
  BY <1>1, <1>2, ResolveToKeepsInv DEF Resolve, Statuses

\* What Create makes of the offers: it holds every pending one.
LEMMA CreateReplaces ==
    ASSUME LockInv, NEW x \in Requests, tx[x].at = "write",
           NEW new \in Offers, ~Exists(new),
           offer' = [o \in Offers |-> IF o = new
                       THEN [status |-> "pending", by |-> tx[x].actor]
                       ELSE [offer[o] EXCEPT !.status = Ends(x, o)]]
    PROVE  /\ Pending' = {new}
           /\ \A o \in Pending : held[o] = x
           /\ offer' \in [Offers -> [status: Statuses \cup {"none"}, by: Participants]]
<1> USE NegotiationAssumption
<1>1. Types /\ Holds(x) /\ Expires(x) /\ Creates(x)
  BY DEF LockInv
<1>2. tx[x] \in Transaction
  BY <1>1 DEF Types
<1>3. \A o \in Offers : Ends(x, o) \in Statuses \cup {"none"}
  BY <1>1 DEF Ends, Types, Statuses
<1>4. offer' \in [Offers -> [status: Statuses \cup {"none"}, by: Participants]]
  <2>1. \A o \in Offers : [offer[o] EXCEPT !.status = Ends(x, o)]
                             \in [status: Statuses \cup {"none"}, by: Participants]
    BY <1>1, <1>3 DEF Types
  <2>2. [status |-> "pending", by |-> tx[x].actor]
           \in [status: Statuses \cup {"none"}, by: Participants]
    BY <1>2 DEF Transaction, Statuses
  <2> QED
    BY <2>1, <2>2
<1>5. \A o \in Pending : o \in tx[x].stale \/ o = tx[x].target
  BY <1>1 DEF Creates
<1>6. \A o \in Pending : held[o] = x
  <2> TAKE o \in Pending
  <2>1. CASE o \in tx[x].stale
    BY <1>1, <2>1 DEF Expires
  <2>2. CASE o = tx[x].target
    <3>1. o # None
      BY DEF Pending
    <3>2. tx[x].kind = "counter"
      BY <1>1, <2>2, <3>1 DEF Holds, Creating
    <3> QED
      BY <1>1, <2>2, <3>2 DEF Creates
  <2> QED
    BY <1>5, <2>1, <2>2
<1>7. \A o \in Offers \ {new} : offer'[o].status # "pending"
  <2> TAKE o \in Offers \ {new}
  <2>1. offer'[o].status = Ends(x, o)
    BY <1>1 DEF Types
  <2>2. CASE o \in Pending
    BY <1>5, <2>1, <2>2 DEF Ends
  <2>3. CASE o \notin Pending
    BY <2>1, <2>3 DEF Ends, Pending
  <2> QED
    BY <2>2, <2>3
<1>8. offer'[new].status = "pending"
  OBVIOUS
<1> QED
  BY <1>4, <1>6, <1>7, <1>8 DEF Pending

LEMMA CreateKeepsInv ==
    ASSUME LockInv, NEW x \in Requests, Create(x)
    PROVE  LockInv'
<1> USE NegotiationAssumption
<1>1. PICK new \in {o \in Offers : ~Exists(o)} :
        /\ offer' = [o \in Offers |-> IF o = new
                       THEN [status |-> "pending", by |-> tx[x].actor]
                       ELSE [offer[o] EXCEPT !.status = Ends(x, o)]]
        /\ message' = [o \in Offers |-> IF o = new THEN "pending" ELSE MessageEnds(x, o)]
        /\ events' = [o \in Offers |->
                        CASE o = new -> {"pending"}
                          [] o = tx[x].target -> events[o] \cup {"countered"}
                          [] OTHER -> events[o]]
  BY DEF Create
<1>2. tx[x].at = "write" /\ End(x) /\ UNCHANGED overdue
  BY DEF Create
<1>3. /\ Pending' = {new} /\ \A o \in Pending : held[o] = x
      /\ offer' \in [Offers -> [status: Statuses \cup {"none"}, by: Participants]]
  BY <1>1, <1>2, CreateReplaces
<1>4. message' \in [Offers -> Statuses \cup {"none"}]
  BY <1>1 DEF LockInv, Types, MessageEnds, Statuses
<1>5. events' \in [Offers -> SUBSET Statuses]
  BY <1>1 DEF LockInv, Types, Statuses
<1>6. Types'
  BY <1>2, <1>3, <1>4, <1>5, EndReleases DEF LockInv, Types
<1>7. (Holds(x) /\ Expires(x) /\ Creates(x) /\ Answers(x))'
  BY <1>2, EndReleases DEF Idle, Holds, Expires, Creates, Answers
<1>8. ASSUME NEW y \in Requests, y # x
      PROVE  (Holds(y) /\ Expires(y) /\ Creates(y) /\ Answers(y))'
  <2>1. tx'[y] = tx[y]
    BY <1>2, <1>8, EndReleases
  <2>2. thread = x /\ Holds(y) /\ Expires(y) /\ Answers(y)
    BY <1>2 DEF LockInv, Holds
  <2>3. tx[y].at \notin {"expiry", "parent", "write"}
    BY <1>8, <2>2 DEF Holds
  <2>4. tx[y].at # "resolve"
    BY <1>3, <1>8, <2>2 DEF Answers
  <2>5. tx[y].stale = {}
    BY <2>2, <2>3 DEF Expires
  <2> QED
    BY <2>1, <2>2, <2>3, <2>4, <2>5 DEF Holds, Expires, Creates, Answers
<1>9. OneAtMost'
  BY <1>3 DEF OneAtMost
<1>10. ThreadTellsTheOffer'
  <2> SUFFICES ASSUME NEW q \in Offers
               PROVE  /\ message'[q] = offer'[q].status
                      /\ offer'[q].status \notin {"none", "expired"} =>
                           events'[q] = {"pending", offer'[q].status}
    BY DEF ThreadTellsTheOffer
  <2>1. /\ message[q] = offer[q].status
        /\ offer[q].status \notin {"none", "expired"} =>
             events[q] = {"pending", offer[q].status}
    BY DEF LockInv, ThreadTellsTheOffer
  <2>2. CASE q = new
    <3>1. message'[q] = "pending"
      BY <1>1, <2>2
    <3>2. events'[q] = {"pending"}
      <4>1. q # tx[x].target
        BY <1>2, <2>2 DEF LockInv, Creates, Holds, Creating, Pending, Exists
      <4> QED
        BY <1>1, <2>2, <4>1
    <3>3. offer'[q] = [status |-> "pending", by |-> tx[x].actor]
      BY <1>1, <2>2
    <3> QED
      BY <3>1, <3>2, <3>3
  <2>3. CASE q # new
    <3>1. /\ offer'[q].status = Ends(x, q) /\ message'[q] = MessageEnds(x, q)
          /\ events'[q] = IF q = tx[x].target THEN events[q] \cup {"countered"} ELSE events[q]
      BY <1>1, <2>3 DEF LockInv, Types
    <3>2. q = tx[x].target => q \in Pending
      BY <1>2 DEF LockInv, Creates, Holds, Creating
    <3>3. Ends(x, q) # "expired" /\ q = tx[x].target =>
             Ends(x, q) = "countered" /\ MessageEnds(x, q) = "countered"
             /\ events[q] = {"pending"}
      BY <2>1, <3>2 DEF Ends, MessageEnds, Pending
    <3>4. Ends(x, q) = "expired" => MessageEnds(x, q) = "expired"
      BY DEF MessageEnds
    <3>5. Ends(x, q) # "expired" /\ q # tx[x].target =>
             Ends(x, q) = offer[q].status /\ MessageEnds(x, q) = message[q]
      BY DEF Ends, MessageEnds
    <3>6. CASE Ends(x, q) = "expired"
      BY <3>1, <3>4, <3>6
    <3>7. CASE Ends(x, q) # "expired" /\ q = tx[x].target
      BY <3>1, <3>3, <3>7
    <3>8. CASE Ends(x, q) # "expired" /\ q # tx[x].target
      BY <2>1, <3>1, <3>5, <3>8
    <3> QED
      BY <3>6, <3>7, <3>8
  <2> QED
    BY <2>2, <2>3
<1> QED
  BY <1>6, <1>7, <1>8, <1>9, <1>10 DEF LockInv

-----------------------------------------------------------------------------
(* The invariant and what follows from it.                                 *)

LEMMA InitHolds == Init => LockInv
<1> SUFFICES ASSUME Init PROVE LockInv
  OBVIOUS
<1>1. Types
  BY DEF Init, Types, Transaction, Idle, Steps, Kinds, Participants
<1>2. Pending = {} /\ \A x \in Requests : tx[x] = Idle
  BY DEF Init, Pending
<1>3. \A x \in Requests : Holds(x) /\ Expires(x) /\ Creates(x) /\ Answers(x)
  BY <1>2 DEF Idle, Holds, Expires, Creates, Answers
<1>4. OneAtMost /\ ThreadTellsTheOffer
  BY <1>2 DEF Init, OneAtMost, ThreadTellsTheOffer
<1> QED
  BY <1>1, <1>3, <1>4 DEF LockInv

LEMMA NextKeepsInv == LockInv /\ [Next]_vars => LockInv'
<1> SUFFICES ASSUME LockInv, [Next]_vars PROVE LockInv'
  OBVIOUS
<1>1. ASSUME NEW x \in Requests, NEW kind \in Kinds, NEW p \in Participants,
             Begin(x, kind, p)
      PROVE  LockInv'
  BY <1>1, BeginKeepsInv
<1>2. ASSUME NEW x \in Requests, Step(x) PROVE LockInv'
  BY <1>2, LockThreadKeepsInv, ExpireStaleKeepsInv, LockParentKeepsInv,
     CheckNonePendingKeepsInv, CreateKeepsInv, LockOfferKeepsInv, ResolveKeepsInv DEF Step
<1>3. ASSUME NEW x \in Requests, DetectDeadlock(x) PROVE LockInv'
  BY <1>3, EndKeepsInv DEF DetectDeadlock
<1>4. ASSUME UNCHANGED <<rows, tx, locks>>, overdue' \in SUBSET Offers PROVE LockInv'
  <2>1. /\ UNCHANGED <<offer, message, events, tx, thread, held>> /\ Pending' = Pending
    BY <1>4 DEF rows, locks, Pending
  <2>2. Types'
    BY <1>4, <2>1 DEF LockInv, Types
  <2>3. OneAtMost' /\ ThreadTellsTheOffer'
    BY <2>1 DEF LockInv, OneAtMost, ThreadTellsTheOffer
  <2>4. \A x \in Requests : (Holds(x) /\ Expires(x) /\ Creates(x) /\ Answers(x))'
    BY <2>1 DEF LockInv, Holds, Expires, Creates, Answers, Entitled
  <2> QED
    BY <2>2, <2>3, <2>4 DEF LockInv
<1>5. ASSUME NEW o \in Offers, Lapse(o) PROVE LockInv'
  BY <1>4, <1>5 DEF Lapse, LockInv, Types
<1>6. CASE UNCHANGED vars
  BY <1>4, <1>6 DEF vars, LockInv, Types
<1> QED
  BY <1>1, <1>2, <1>3, <1>5, <1>6 DEF Next

LEMMA LocksAreHeld == Spec => []LockInv
  BY InitHolds, NextKeepsInv, PTL DEF Spec

LEMMA TypesHold == LockInv => TypeOK
<1> SUFFICES ASSUME LockInv PROVE TypeOK
  OBVIOUS
<1>1. \A x \in Requests : tx[x].stale \subseteq Pending
  BY DEF LockInv, Expires
<1> QED
  BY <1>1 DEF LockInv, Types, TypeOK, Transaction, Steps

\* The offers, messages, events, transactions and locks keep their types, and an offer
\* a transaction is about to expire stays pending until it does.
THEOREM TypeCorrect == Spec => []TypeOK
  BY LocksAreHeld, TypesHold, PTL

\* The unique index on pending offers is never the one to refuse an offer.
THEOREM OnePending == Spec => []OnePendingOffer
<1>1. LockInv => OnePendingOffer
  <2> SUFFICES ASSUME LockInv PROVE Cardinality(Pending) <= 1
    BY DEF OnePendingOffer
  <2>1. CASE Pending = {}
    BY <2>1, FS_EmptySet
  <2>2. ASSUME NEW o \in Pending PROVE Cardinality(Pending) <= 1
    <3>1. Pending = {o}
      BY <2>2 DEF LockInv, OneAtMost
    <3>2. Cardinality({o}) = 1
      BY FS_Singleton
    <3> QED
      BY <3>1, <3>2
  <2> QED
    BY <2>1, <2>2
<1> QED
  BY <1>1, LocksAreHeld, PTL

\* Both participants read the state of every offer from the messages of the thread.
THEOREM ThreadTells == Spec => []ThreadTellsTheOffer
<1>1. LockInv => ThreadTellsTheOffer
  BY DEF LockInv
<1> QED
  BY <1>1, LocksAreHeld, PTL

-----------------------------------------------------------------------------
(* The transactions implement the serial negotiation.                      *)

LEMMA ResolutionIsSerial ==
    ASSUME LockInv, NEW x \in Requests, NEW o \in Pending, o = tx[x].target, Entitled(x),
           NEW status \in IF tx[x].kind = "withdraw" THEN {"withdrawn"}
                          ELSE {"accepted", "declined", "expired"},
           ResolveTo(o, status)
    PROVE  Serialized!Next
<1> DEFINE p == tx[x].actor
<1>1. o \in Offers /\ o \in Serialized!OnTheTable
  BY DEF Pending, Serialized!OnTheTable
<1>2. p \in Participants
  BY DEF LockInv, Types, Transaction
<1>3. offer' = [offer EXCEPT ![o].status = status]
  BY DEF ResolveTo
<1>4. status \in IF offer[o].by = p THEN {"withdrawn"}
                 ELSE Serialized!Answers \ {"countered"}
  BY DEF Entitled, Serialized!Answers
<1>5. Serialized!Resolve(o, p)
  BY <1>1, <1>3, <1>4 DEF Serialized!Resolve
<1> QED
  BY <1>1, <1>2, <1>5 DEF Serialized!Next

LEMMA CreationIsSerial ==
    ASSUME LockInv, NEW x \in Requests, Create(x)
    PROVE  Serialized!Next
<1> USE NegotiationAssumption
<1> DEFINE p == tx[x].actor
           ends == IF tx[x].kind = "counter" /\ tx[x].target \notin tx[x].stale
                   THEN "countered" ELSE "expired"
<1>1. PICK new \in {o \in Offers : ~Exists(o)} :
        offer' = [o \in Offers |-> IF o = new
                    THEN [status |-> "pending", by |-> tx[x].actor]
                    ELSE [offer[o] EXCEPT !.status = Ends(x, o)]]
  BY DEF Create
<1>2. p \in Participants /\ tx[x].at = "write" /\ Types
  BY DEF Create, LockInv, Types, Transaction
<1>3. Holds(x) /\ Expires(x) /\ Creates(x) /\ OneAtMost
  BY DEF LockInv
<1>4. offer[new].status = "none"
  BY DEF Exists
<1>5. Serialized!OnTheTable = Pending
  BY DEF Serialized!OnTheTable, Pending
<1>6. ends = "countered" => Pending # {} /\ \A q \in Pending : offer[q].by # p
  BY <1>2, <1>3 DEF Creates, OneAtMost
<1>7. \A q \in Pending : Ends(x, q) = ends
  <2> TAKE q \in Pending
  <2>1. q \in Offers /\ (q \in tx[x].stale \/ q = tx[x].target)
    BY <1>2, <1>3 DEF Pending, Creates
  <2>2. CASE tx[x].kind = "counter"
    <3>1. q = tx[x].target
      BY <1>2, <1>3, <2>2 DEF Creates, OneAtMost
    <3> QED
      BY <2>2, <3>1 DEF Ends
  <2>3. CASE tx[x].kind = "offer"
    BY <1>2, <1>3, <2>1, <2>3 DEF Ends, Holds
  <2> QED
    BY <1>2, <1>3, <2>2, <2>3 DEF Holds, Creating
<1>8. \A q \in Offers \ Pending : Ends(x, q) = offer[q].status
  BY <1>2, <1>3 DEF Ends, Expires, Creates, Holds, Creating
<1>9. \A q \in Offers \ Pending : [offer[q] EXCEPT !.status = Ends(x, q)] = offer[q]
  BY <1>2, <1>8 DEF Types
<1>10. offer' = [q \in Offers |->
                   CASE q = new -> [status |-> "pending", by |-> p]
                     [] q \in Pending -> [offer[q] EXCEPT !.status = ends]
                     [] OTHER -> offer[q]]
  <2>1. new \notin Pending
    BY <1>4 DEF Pending
  <2>2. ASSUME NEW q \in Offers
        PROVE  (IF q = new THEN [status |-> "pending", by |-> p]
                ELSE [offer[q] EXCEPT !.status = Ends(x, q)])
               = CASE q = new -> [status |-> "pending", by |-> p]
                   [] q \in Pending -> [offer[q] EXCEPT !.status = ends]
                   [] OTHER -> offer[q]
    <3>1. CASE q = new
      BY <2>1, <3>1
    <3>2. CASE q # new /\ q \in Pending
      BY <1>7, <3>2
    <3>3. CASE q # new /\ q \notin Pending
      BY <1>9, <3>3
    <3> QED
      BY <3>1, <3>2, <3>3
  <2> HIDE DEF ends
  <2> QED
    BY <1>1, <2>2
<1>11. ends \in {"countered", "expired"}
  OBVIOUS
<1> HIDE DEF ends
<1>12. Serialized!Propose(new, p)
  BY <1>4, <1>5, <1>6, <1>10, <1>11 DEF Serialized!Propose
<1> QED
  BY <1>2, <1>12 DEF Serialized!Next

\* "All state changes are serialized" (00049), whatever locks transactions wait for and
\* whichever of them the detector ends.
THEOREM NegotiationIsSerialized == Spec => SerializedNegotiation
<1>1. Init => Serialized!Init
  BY DEF Init, Serialized!Init
<1>2. LockInv /\ [Next]_vars => [Serialized!Next]_offer
  <2> SUFFICES ASSUME LockInv, [Next]_vars, offer' # offer PROVE Serialized!Next
    OBVIOUS
  <2>1. ASSUME NEW x \in Requests, Create(x) PROVE Serialized!Next
    BY <2>1, CreationIsSerial
  <2>2. ASSUME NEW x \in Requests, LockOffer(x) PROVE Serialized!Next
    <3>1. tx[x].target \in Pending /\ Entitled(x) /\ tx[x].kind # "withdraw"
          /\ ResolveTo(tx[x].target, "expired")
      BY <2>2 DEF LockOffer, rows
    <3> QED
      BY <3>1, ResolutionIsSerial
  <2>3. ASSUME NEW x \in Requests, Resolve(x) PROVE Serialized!Next
    <3>1. PICK status \in IF tx[x].kind = "withdraw" THEN {"withdrawn"}
                          ELSE {"accepted", "declined"} : ResolveTo(tx[x].target, status)
      BY <2>3 DEF Resolve
    <3>2. tx[x].target \in Pending /\ Entitled(x)
      BY <2>3 DEF Resolve, LockInv, Answers
    <3>3. status \in IF tx[x].kind = "withdraw" THEN {"withdrawn"}
                     ELSE {"accepted", "declined", "expired"}
      BY <3>1
    <3> QED
      BY <3>1, <3>2, <3>3, ResolutionIsSerial
  <2>4. ASSUME NEW x \in Requests, NEW kind \in Kinds, NEW p \in Participants,
               Begin(x, kind, p)
        PROVE  FALSE
    BY <2>4 DEF Begin, rows
  <2>5. ASSUME NEW x \in Requests,
               LockThread(x) \/ ExpireStale(x) \/ LockParent(x) \/ CheckNonePending(x)
                 \/ DetectDeadlock(x)
        PROVE  FALSE
    BY <2>5 DEF LockThread, ExpireStale, LockParent, CheckNonePending, DetectDeadlock, rows
  <2>6. ASSUME NEW o \in Offers, Lapse(o) PROVE FALSE
    BY <2>6 DEF Lapse, rows
  <2>7. ~UNCHANGED vars
    BY DEF vars, rows
  <2> QED
    BY <2>1, <2>2, <2>3, <2>4, <2>5, <2>6, <2>7 DEF Next, Step
<1> QED
  BY <1>1, <1>2, LocksAreHeld, PTL DEF Spec, SerializedNegotiation, Serialized!Spec

-----------------------------------------------------------------------------
(* Deadlocks.                                                              *)

\* Transactions that wait for one another, however many they are, are seen by the
\* detector; and whoever is waited for is a transaction that is under way.
EveryDeadlockIsSeen ==
    /\ \A S \in (SUBSET Requests) \ {{}} :
         (\A x \in S : WaitsFor(x) \cap (S \ {x}) # {}) => \E x \in S : Deadlocked(x)
    /\ \A x \in Requests : \A y \in WaitsFor(x) \ {None} : tx[y].at # "idle"

\* Whoever holds a row is at a step that needs it.
Holders ==
    /\ thread # None => tx[thread].at \in {"expiry", "parent", "write"}
    /\ \A o \in Offers : held[o] # None =>
         \/ tx[held[o]].at = "resolve" /\ tx[held[o]].target = o
         \/ tx[held[o]].at \in {"parent", "write"}

\* A step of a transaction leaves the holders among the others as they are.
LEMMA HoldersStay ==
    ASSUME Types, Holders, NEW x \in Requests,
           \A y \in Requests \ {x} : tx'[y] = tx[y],
           thread' \in {thread, None, x},
           \A o \in Offers : held'[o] \in {held[o], None, x},
           thread' = x => tx'[x].at \in {"expiry", "parent", "write"},
           \A o \in Offers : held'[o] = x =>
             \/ tx'[x].at = "resolve" /\ tx'[x].target = o
             \/ tx'[x].at \in {"parent", "write"}
    PROVE  Holders'
<1>1. thread \in Requests \cup {None} /\ \A o \in Offers : held[o] \in Requests \cup {None}
  BY DEF Types
<1>2. thread' # None => tx'[thread'].at \in {"expiry", "parent", "write"}
  BY <1>1 DEF Holders
<1>3. ASSUME NEW o \in Offers, held'[o] # None
      PROVE  \/ tx'[held'[o]].at = "resolve" /\ tx'[held'[o]].target = o
             \/ tx'[held'[o]].at \in {"parent", "write"}
  <2>1. CASE held'[o] = x
    BY <2>1
  <2>2. CASE held'[o] # x
    <3>1. held'[o] = held[o] /\ held[o] \in Requests \ {x}
      BY <1>1, <1>3, <2>2
    <3>2. /\ tx'[held[o]] = tx[held[o]] /\ held[o] # None
      BY <1>3, <3>1
    <3>3. \/ tx[held[o]].at = "resolve" /\ tx[held[o]].target = o
          \/ tx[held[o]].at \in {"parent", "write"}
      BY <3>2 DEF Holders
    <3> QED
      BY <3>1, <3>2, <3>3
  <2> QED
    BY <2>1, <2>2
<1> QED
  BY <1>2, <1>3 DEF Holders

\* Locks are taken where they are needed and given back at the end.
LEMMA HoldersInductive == LockInv /\ Holders /\ [Next]_vars => Holders'
<1> SUFFICES ASSUME LockInv, Holders, [Next]_vars PROVE Holders'
  OBVIOUS
<1>1. /\ Types /\ tx \in [Requests -> Transaction]
      /\ thread \in Requests \cup {None} /\ held \in [Offers -> Requests \cup {None}]
      /\ \A x \in Requests : tx[x] \in Transaction
      /\ None \notin Requests
  BY NegotiationAssumption DEF LockInv, Types
<1>2. ASSUME NEW x \in Requests, End(x) PROVE Holders'
  <2>1. /\ \A y \in Requests \ {x} : tx'[y] = tx[y]
        /\ thread' \in {thread, None, x} /\ thread' # x
        /\ \A o \in Offers : held'[o] \in {held[o], None, x} /\ held'[o] # x
    BY <1>1, <1>2 DEF End
  <2> QED
    BY <1>1, <2>1, HoldersStay
<1>3. ASSUME NEW x \in Requests, NEW at, Goto(x, at)
      PROVE  /\ \A y \in Requests \ {x} : tx'[y] = tx[y]
             /\ tx'[x].at = at /\ tx'[x].target = tx[x].target
  BY <1>1, <1>3 DEF Goto, Transaction
<1>4. ASSUME NEW x \in Requests
      PROVE  /\ tx[x].at \in {"idle", "thread", "offer"}
                  => thread # x /\ \A o \in Offers : held[o] # x
             /\ tx[x].at = "expiry" => \A o \in Offers : held[o] # x
  BY <1>1 DEF Holders
<1>5. ASSUME NEW x \in Requests, NEW kind \in Kinds, NEW p \in Participants, Begin(x, kind, p)
      PROVE  Holders'
  <2>1. /\ \A y \in Requests \ {x} : tx'[y] = tx[y]
        /\ UNCHANGED <<thread, held>> /\ tx[x].at = "idle"
    BY <1>1, <1>5 DEF Begin, locks
  <2> QED
    BY <1>1, <1>4, <2>1, HoldersStay
<1>6. ASSUME NEW x \in Requests, LockThread(x) PROVE Holders'
  <2>1. /\ Goto(x, "expiry") /\ thread' = x /\ held' = held /\ tx[x].at = "thread"
    BY <1>6 DEF LockThread
  <2>2. /\ \A y \in Requests \ {x} : tx'[y] = tx[y]
        /\ tx'[x].at = "expiry" /\ \A o \in Offers : held'[o] # x
    BY <1>3, <1>4, <2>1
  <2> QED
    BY <1>1, <2>1, <2>2, HoldersStay
<1>7. ASSUME NEW x \in Requests, ExpireStale(x) PROVE Holders'
  <2>1. /\ \A y \in Requests \ {x} : tx'[y] = tx[y]
        /\ tx'[x].at = "parent" /\ thread' = thread
        /\ \A o \in Offers : held'[o] \in {held[o], None, x}
    BY <1>1, <1>7 DEF ExpireStale, Transaction
  <2> QED
    BY <1>1, <2>1, HoldersStay
<1>8. ASSUME NEW x \in Requests, LockParent(x) PROVE Holders'
  <2>1. CASE End(x)
    BY <1>2, <2>1
  <2>2. CASE /\ held' = [held EXCEPT ![tx[x].target] = x]
             /\ Goto(x, "write") /\ UNCHANGED thread
    <3>1. /\ \A y \in Requests \ {x} : tx'[y] = tx[y]
          /\ tx'[x].at = "write"
          /\ \A o \in Offers : held'[o] \in {held[o], None, x}
      BY <1>1, <1>3, <2>2
    <3> QED
      BY <1>1, <2>2, <3>1, HoldersStay
  <2> QED
    BY <1>8, <2>1, <2>2 DEF LockParent
<1>9. ASSUME NEW x \in Requests, CheckNonePending(x) PROVE Holders'
  <2>1. CASE End(x)
    BY <1>2, <2>1
  <2>2. CASE Goto(x, "write") /\ UNCHANGED locks
    <3>1. /\ \A y \in Requests \ {x} : tx'[y] = tx[y]
          /\ tx'[x].at = "write" /\ UNCHANGED <<thread, held>>
      BY <1>3, <2>2 DEF locks
    <3> QED
      BY <1>1, <3>1, HoldersStay
  <2> QED
    BY <1>9, <2>1, <2>2 DEF CheckNonePending
<1>10. ASSUME NEW x \in Requests, LockOffer(x) PROVE Holders'
  <2>1. CASE End(x)
    BY <1>2, <2>1
  <2>2. CASE /\ held' = [held EXCEPT ![tx[x].target] = x]
             /\ Goto(x, "resolve") /\ UNCHANGED thread
    <3>1. /\ \A y \in Requests \ {x} : tx'[y] = tx[y]
          /\ tx'[x].at = "resolve" /\ tx'[x].target = tx[x].target
          /\ \A o \in Offers : held'[o] \in {held[o], None, x}
          /\ thread' # x
          /\ \A o \in Offers : held'[o] = x => o = tx[x].target
      BY <1>1, <1>3, <1>4, <1>10, <2>2 DEF LockOffer
    <3> QED
      BY <1>1, <2>2, <3>1, HoldersStay
  <2> QED
    BY <1>10, <2>1, <2>2 DEF LockOffer
<1>11. ASSUME NEW x \in Requests, Create(x) \/ Resolve(x) \/ DetectDeadlock(x) PROVE Holders'
  BY <1>2, <1>11 DEF Create, Resolve, DetectDeadlock
<1>12. ASSUME UNCHANGED <<tx, locks>> PROVE Holders'
  BY <1>12 DEF Holders, locks
<1>13. ASSUME NEW o \in Offers, Lapse(o) PROVE Holders'
  BY <1>12, <1>13 DEF Lapse
<1>14. CASE UNCHANGED vars
  BY <1>12, <1>14 DEF vars
<1> QED
  BY <1>5, <1>6, <1>7, <1>8, <1>9, <1>10, <1>11, <1>13, <1>14 DEF Next, Step

\* An answer waits for the conversation only, so whoever waits for others that wait
\* waits, in one step or two, for the holder of the conversation; and that one waits for
\* an answer.
LEMMA DeadlocksArePairs ==
    ASSUME LockInv, Holders, NEW S \in (SUBSET Requests) \ {{}},
           \A x \in S : WaitsFor(x) \cap (S \ {x}) # {}
    PROVE  /\ thread \in S
           /\ \E x \in S : tx[x].at = "resolve"
           /\ Deadlocked(thread)
<1>1. /\ \A x \in Requests : tx[x] \in Transaction /\ Holds(x)
      /\ thread \in Requests \cup {None} /\ held \in [Offers -> Requests \cup {None}]
      /\ None \notin Requests
  BY NegotiationAssumption DEF LockInv, Types
<1>2. \A x \in S : \E y \in S \ {x} : y \in WaitsFor(x)
  OBVIOUS
<1>3. ASSUME NEW x \in S, NEW y \in WaitsFor(x), y \in Requests
      PROVE  \/ y = thread
             \/ \E o \in Offers : y = held[o] /\ tx[x].at \in {"expiry", "parent", "offer"}
  <2>1. tx[x].at \in {"thread", "resolve"} => WaitsFor(x) = {thread}
    BY DEF WaitsFor
  <2>2. tx[x].at = "expiry" => WaitsFor(x) = {held[o] : o \in Pending \cap tx[x].began}
    BY DEF WaitsFor
  <2>3. tx[x].at = "parent" /\ tx[x].kind = "counter" => WaitsFor(x) = {held[tx[x].target]}
    BY DEF WaitsFor
  <2>4. tx[x].at = "offer" => WaitsFor(x) = {held[tx[x].target]}
    BY DEF WaitsFor
  <2>5. \/ tx[x].at \in {"thread", "resolve", "expiry", "offer"}
        \/ tx[x].at = "parent" /\ tx[x].kind = "counter"
    BY DEF WaitsFor
  <2>6. tx[x].at = "offer" \/ (tx[x].at = "parent" /\ tx[x].kind = "counter")
          => tx[x].target \in Offers
    BY <1>1 DEF Holds
  <2>7. Pending \subseteq Offers
    BY DEF Pending
  <2>8. CASE tx[x].at \in {"thread", "resolve"}
    BY <1>3, <2>1, <2>8
  <2>9. CASE tx[x].at = "expiry"
    BY <1>3, <2>2, <2>7, <2>9
  <2>10. CASE tx[x].at = "offer" \/ (tx[x].at = "parent" /\ tx[x].kind = "counter")
    BY <1>3, <2>3, <2>4, <2>6, <2>10
  <2> QED
    BY <2>5, <2>8, <2>9, <2>10
<1>4. ASSUME NEW h \in S, NEW o \in Offers, h = held[o], h # thread
      PROVE  tx[h].at = "resolve" /\ WaitsFor(h) = {thread} /\ thread \in S
  <2>1. tx[h].at = "resolve"
    BY <1>1, <1>4 DEF Holders, Holds
  <2>2. WaitsFor(h) = {thread}
    BY <2>1 DEF WaitsFor
  <2> QED
    BY <1>2, <2>1, <2>2
<1>5. thread \in S
  <2>1. PICK x \in S : TRUE
    OBVIOUS
  <2>2. PICK y \in S \ {x} : y \in WaitsFor(x)
    BY <1>2
  <2>3. y = thread \/ \E o \in Offers : y = held[o]
    BY <1>3, <2>2
  <2> QED
    BY <1>4, <2>2, <2>3
<1>6. PICK h \in S \ {thread} : h \in WaitsFor(thread)
  BY <1>2, <1>5
<1>7. \E o \in Offers : h = held[o]
  BY <1>3, <1>5, <1>6
<1>8. thread \in WaitsFor(h) /\ tx[h].at = "resolve"
  BY <1>4, <1>6, <1>7
<1> QED
  BY <1>5, <1>6, <1>8 DEF Deadlocked

LEMMA HoldersAreAtWork == Spec => [](LockInv /\ Holders)
<1>1. Init => Holders
  BY DEF Init, Holders
<1> QED
  BY <1>1, LocksAreHeld, HoldersInductive, PTL DEF Spec

\* However many transactions wait for one another, an answer waits among them for the
\* creation that holds the conversation: the order of locks has no other exception.
THEOREM DeadlocksNeedAnAnswer == Spec => []OnlyAnswersDeadlock
<1>1. LockInv /\ Holders => OnlyAnswersDeadlock
  BY DeadlocksArePairs DEF OnlyAnswersDeadlock
<1> QED
  BY <1>1, HoldersAreAtWork, PTL

\* However many transactions wait for one another, two of them do so directly, and the
\* detector sees them; and nobody waits for a transaction that is over.
THEOREM DeadlocksAreSeen == Spec => []EveryDeadlockIsSeen
<1>1. LockInv /\ Holders => EveryDeadlockIsSeen
  <2> SUFFICES ASSUME LockInv, Holders PROVE EveryDeadlockIsSeen
    OBVIOUS
  <2>1. ASSUME NEW x \in Requests, NEW y \in WaitsFor(x) \ {None}
        PROVE  tx[y].at # "idle"
    <3>1. Pending \subseteq Offers /\ Holds(x)
      BY DEF Pending, LockInv
    <3>2. y = thread \/ \E o \in Offers : y = held[o]
      BY <3>1 DEF WaitsFor, Holds
    <3> QED
      BY <2>1, <3>2 DEF Holders
  <2> QED
    BY <2>1, DeadlocksArePairs DEF EveryDeadlockIsSeen
<1> QED
  BY <1>1, HoldersAreAtWork, PTL

=============================================================================
