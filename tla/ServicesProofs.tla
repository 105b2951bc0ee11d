---------------------------- MODULE ServicesProofs ----------------------------
(***************************************************************************)
(* When requests can lock each other out of the database and what a        *)
(* refused payment leaves, for any number of requests and connections; and *)
(* that putting the parts of Services side by side changes nothing: each   *)
(* keeps the invariants that it has by itself.                             *)
(***************************************************************************)
EXTENDS Services, NotificationsProofs, DeparturesProofs, FiniteSetTheorems, TLAPS

\* Who has or awaits a connection is at a statement; the open transactions are
\* those between the UPDATE and the COMMIT, of different bookings.
Connections ==
    /\ using \cap waiting = {}
    /\ \A r \in using \cup waiting : at[r] \in Statements
    /\ open = {p \in Payments : at[p] \in {"insert", "commit"}}
    /\ \A p, q \in open : Of[p] = Of[q] => p = q
    /\ \A r \in Others : at[r] \in Resting \cup {"read", "cancel"}
    /\ \A p \in Payments : at[p] # "cancel"

\* Whose payment row a booking has, and what a payment has stored by the time it gets
\* to a step.
Stored ==
    /\ \A b \in Trips : row[b] # Unpaid => Of[row[b]] = b
    /\ \A p \in Payments :
          /\ at[p] = "commit" => row[Of[p]] = p
          /\ at[p] \in {"gateway", "save", "fetch", "confirm"} => row[Of[p]] # Unpaid

PoolInv == PoolTypeOK /\ Connections /\ Stored /\ RefusedIsWhole

LEMMA PoolInvInit == PoolInit => PoolInv
<1> SUFFICES ASSUME PoolInit PROVE PoolInv
  OBVIOUS
<1>1. Used = 0 /\ Size \in Nat
  BY FS_EmptySet, PoolAssumption DEF PoolInit, Used
<1>2. Used <= Size
  BY <1>1
<1> QED
  BY <1>2 DEF PoolInit, PoolInv, PoolTypeOK, Connections, Stored, RefusedIsWhole, Requests, Resting, PoolSteps

LEMMA SetsFinite ==
    ASSUME PoolInv
    PROVE  /\ IsFiniteSet(using) /\ IsFiniteSet(open)
           /\ Cardinality(using) \in Nat /\ Cardinality(open) \in Nat
<1>1. using \subseteq Requests /\ open \subseteq Requests
  BY DEF PoolInv, PoolTypeOK, Requests
<1> QED BY <1>1, FS_Subset, FS_CardinalityType, PoolAssumption

(* Giving a connection back, to the pool or to the transaction.              *)
LEMMA UsedFalls ==
    ASSUME PoolInv, NEW u \in SUBSET using, NEW o \in SUBSET open
    PROVE  Cardinality(u) + Cardinality(o) <= Size
<1>1. /\ IsFiniteSet(u) /\ IsFiniteSet(o)
      /\ Cardinality(u) \in Nat /\ Cardinality(o) \in Nat
      /\ Cardinality(u) <= Cardinality(using) /\ Cardinality(o) <= Cardinality(open)
  BY SetsFinite, FS_Subset, FS_CardinalityType
<1> QED
  BY <1>1, SetsFinite, PoolAssumption DEF PoolInv, PoolTypeOK, Used

LEMMA UsedMoves ==
    ASSUME PoolInv, NEW r \in using
    PROVE  Cardinality(using \ {r}) + Cardinality(open \cup {r}) <= Size
<1>1. Cardinality(using \ {r}) = Cardinality(using) - 1
  BY SetsFinite, FS_RemoveElement
<1>2. Cardinality(open \cup {r}) \in {Cardinality(open), Cardinality(open) + 1}
  BY SetsFinite, FS_AddElement
<1> QED
  BY <1>1, <1>2, SetsFinite, PoolAssumption DEF PoolInv, PoolTypeOK, Used

LEMMA UsedRises ==
    ASSUME PoolInv, NEW r, Used < Size
    PROVE  Cardinality(using \cup {r}) + Cardinality(open) <= Size
<1>1. Cardinality(using \cup {r}) \in {Cardinality(using), Cardinality(using) + 1}
  BY SetsFinite, FS_AddElement
<1> QED
  BY <1>1, SetsFinite, PoolAssumption DEF Used

LEMMA PoolStep == ASSUME PoolInv, [PoolNext]_poolVars PROVE PoolInv'
<1> USE DEF PoolInv, Connections, Stored, RefusedIsWhole, Requests, Resting, Statements, PoolSteps
<1>1. Payments \cap Others = {} /\ Unpaid \notin Payments
  BY PoolAssumption
<1>0. \A r \in Requests : Of[r] \in Trips
  BY DEF Trips
<1>2. ASSUME NEW r \in Requests, Grant(r) PROVE PoolInv'
  <2>1. Used' <= Size
    BY <1>2, UsedRises DEF Grant, Used
  <2> QED BY <1>2, <2>1 DEF Grant, PoolTypeOK
<1>3. ASSUME NEW r \in Requests, TimeOut(r) PROVE PoolInv'
  <2>1. using' \subseteq using /\ open' \subseteq open
    BY <1>3 DEF TimeOut
  <2>2. Used' <= Size
    BY <2>1, UsedFalls DEF Used
  <2> QED BY <1>1, <1>3, <2>2 DEF TimeOut, PoolTypeOK
<1>4. ASSUME NEW r \in Requests, Arrive(r) PROVE PoolInv'
  BY <1>1, <1>4 DEF Arrive, Ask, PoolTypeOK, Used
<1>5. ASSUME NEW p \in Requests, Read(p) \/ Find(p) PROVE PoolInv'
  <2>1. p \in Payments /\ using' \subseteq using /\ open' \subseteq open
    BY <1>5 DEF Read, Find, Has
  <2>2. Used' <= Size
    BY <2>1, UsedFalls DEF Used
  <2>3. PICK to \in {"find", "begin", "done"} :
           /\ at' = [at EXCEPT ![p] = to] /\ p \in using /\ at[p] \in {"read", "find"}
           /\ waiting' = IF to = "done" THEN waiting ELSE waiting \cup {p}
           /\ using' = using \ {p} /\ UNCHANGED <<open, status, row>>
    BY <1>5 DEF Read, Find, Has, Ask, Go
  <2> QED BY <1>1, <2>1, <2>2, <2>3 DEF PoolTypeOK
<1>6. ASSUME NEW p \in Requests, Update(p) PROVE PoolInv'
  <2>1. p \in Payments
    BY <1>6 DEF Update, Has
  <2>2. Used' <= Size
    BY <1>6, UsedMoves DEF Update, Has, Used
  <2> QED BY <1>1, <1>6, <2>1, <2>2 DEF Update, Has, Ask, RowFree, PoolTypeOK
<1>7. ASSUME NEW p \in Requests, Insert(p) PROVE PoolInv'
  <2>1. p \in Payments /\ Of[p] \in Trips /\ using' \subseteq using /\ open' \subseteq open
    BY <1>0, <1>7 DEF Insert, Has
  <2>2. Used' <= Size
    BY <2>1, UsedFalls DEF Used
  <2>3. CASE row[Of[p]] = Unpaid
    <3>1. /\ at' = [at EXCEPT ![p] = "commit"] /\ row' = [row EXCEPT ![Of[p]] = p]
          /\ using' = using \ {p} /\ p \in using /\ at[p] = "insert"
          /\ UNCHANGED <<waiting, open, status>>
      BY <1>7, <2>3 DEF Insert, Has, Go
    <3>2. PoolTypeOK'
      BY <2>1, <2>2, <3>1 DEF PoolTypeOK
    <3>3. Connections'
      BY <1>1, <2>1, <3>1 DEF PoolTypeOK
    <3>4. Stored'
      BY <2>1, <2>3, <3>1 DEF PoolTypeOK
    <3>5. RefusedIsWhole'
      <4> SUFFICES ASSUME NEW b \in Trips
            PROVE  /\ status[b] \in {"PENDING", "CONFIRMED"} => row'[b] # Unpaid
                   /\ status[b] = "INITIATED" /\ row'[b] # Unpaid => at'[row'[b]] = "commit"
        BY <3>1
      <4>1. CASE b = Of[p]
        BY <1>1, <2>1, <3>1, <4>1 DEF PoolTypeOK
      <4>2. CASE b # Of[p]
        BY <2>1, <3>1, <4>2 DEF PoolTypeOK
      <4> QED BY <4>1, <4>2
    <3> QED BY <3>2, <3>3, <3>4, <3>5
  <2>4. CASE row[Of[p]] # Unpaid
    BY <1>1, <1>7, <2>1, <2>2, <2>4 DEF Insert, Has, Go, PoolTypeOK
  <2> QED BY <2>3, <2>4
<1>8. ASSUME NEW p \in Requests, Commit(p) PROVE PoolInv'
  <2>1. p \in Payments /\ Of[p] \in Trips /\ using' \subseteq using /\ open' \subseteq open
    BY <1>0, <1>8 DEF Commit
  <2>2. Used' <= Size
    BY <2>1, UsedFalls DEF Used
  <2> QED BY <1>1, <1>8, <2>1, <2>2 DEF Commit, Go, PoolTypeOK
<1>9. ASSUME NEW p \in Requests, Charge(p) PROVE PoolInv'
  <2>1. p \in Payments
    BY <1>9 DEF Charge
  <2> QED BY <1>1, <1>9, <2>1 DEF Charge, Ask, PoolTypeOK, Used
<1>10. ASSUME NEW p \in Requests, Save(p) \/ Fetch(p) PROVE PoolInv'
  <2>1. p \in Payments /\ using' \subseteq using /\ open' \subseteq open
    BY <1>10 DEF Save, Fetch, Has
  <2>2. Used' <= Size
    BY <2>1, UsedFalls DEF Used
  <2> QED BY <1>1, <1>10, <2>1, <2>2 DEF Save, Fetch, Has, Ask, PoolTypeOK
<1>11. ASSUME NEW p \in Requests, NEW to \in {"CONFIRMED", "CANCELLED"}, SaveBooking(p, to) PROVE PoolInv'
  <2>1. p \in Payments /\ Of[p] \in Trips /\ using' \subseteq using /\ open' \subseteq open
    BY <1>0, <1>11 DEF SaveBooking, Has
  <2>2. Used' <= Size
    BY <2>1, UsedFalls DEF Used
  <2> QED BY <1>1, <1>11, <2>1, <2>2 DEF SaveBooking, Has, Go, PoolTypeOK
<1>12. ASSUME NEW r \in Requests, Serve(r) PROVE PoolInv'
  <2>1. using' \subseteq using /\ open' \subseteq open
    BY <1>12 DEF Serve
  <2>2. Used' <= Size
    BY <2>1, UsedFalls DEF Used
  <2> QED BY <1>1, <1>12, <2>2 DEF Serve, Has, Go, Ask, PoolTypeOK
<1>13. ASSUME NEW r \in Requests, CancelBooking(r) PROVE PoolInv'
  <2>1. r \in Others /\ Of[r] \in Trips /\ using' \subseteq using /\ open' \subseteq open
    BY <1>0, <1>13 DEF CancelBooking, Has
  <2>2. Used' <= Size
    BY <2>1, UsedFalls DEF Used
  <2> QED BY <1>1, <1>13, <2>1, <2>2 DEF CancelBooking, Has, Go, PoolTypeOK
<1>14. CASE UNCHANGED poolVars
  BY <1>14 DEF poolVars, PoolTypeOK, Used
<1> QED
  BY <1>2, <1>3, <1>4, <1>5, <1>6, <1>7, <1>8, <1>9, <1>10, <1>11, <1>12, <1>13, <1>14
     DEF PoolNext, Advance

LEMMA PoolAlways == PoolSpec => []PoolInv
  BY PoolInvInit, PoolStep, PTL DEF PoolSpec

(* The type invariant, with no connection in use beyond those there are.     *)
THEOREM PoolTypeCorrect == PoolSpec => []PoolTypeOK
<1>1. PoolInv => PoolTypeOK
  BY DEF PoolInv
<1> QED BY <1>1, PoolAlways, PTL

(* Who holds the connections when nobody can go on without a refusal. *)
LEMMA LockHolders ==
    ASSUME PoolInv, Locked
    PROVE  /\ open = Inserting /\ open \cap using = {}
           /\ \A r \in using : \E p \in Inserting : Of[p] = Of[r]
<1>1. open = Inserting /\ open \cap using = {}
  BY DEF PoolInv, PoolTypeOK, Connections, Locked, RowBlocked, Has, Inserting, Resting, Statements, Requests
<1>2. ASSUME NEW r \in using PROVE \E p \in open : Of[p] = Of[r]
  <2>1. r \in Requests /\ at[r] \notin Resting /\ r \notin waiting
    BY DEF PoolInv, PoolTypeOK, Connections, Resting, Statements
  <2> QED BY <2>1 DEF Locked, RowBlocked, RowFree
<1> QED BY <1>1, <1>2

(* Whenever nobody can go on without a refusal, every connection is held by a payment
   that waits for its INSERT, or by a request that waits for the row of such a payment. *)
THEOREM LockIsPayments == PoolSpec => []OnlyPaymentsLock
<1>1. PoolInv => OnlyPaymentsLock
  <2> DEFINE Held == {r \in using : \E p \in Inserting : Of[p] = Of[r]}
  <2> SUFFICES ASSUME PoolInv, Locked PROVE Cardinality(Inserting \cup Held) = Size
    BY DEF OnlyPaymentsLock
  <2>1. Inserting \cup Held = open \cup using /\ open \cap using = {}
    BY LockHolders
  <2>2. Cardinality(open \cup using) = Cardinality(open) + Cardinality(using) - Cardinality(open \cap using)
    BY SetsFinite, FS_Union
  <2>3. Cardinality(open \cap using) = 0
    BY <2>1, FS_EmptySet
  <2>4. Cardinality(open) + Cardinality(using) = Size
    BY SetsFinite DEF Locked, Used
  <2>5. Cardinality(open \cup using) = Size
    BY <2>2, <2>3, <2>4, SetsFinite
  <2> QED BY <2>1, <2>5
<1> QED BY <1>1, PoolAlways, PTL

(* Refused payments leave the booking and its payment row as they agree. *)
THEOREM RefusalsWhole == PoolSpec => []RefusedIsWhole
<1>1. PoolInv => RefusedIsWhole
  BY DEF PoolInv
<1> QED BY <1>1, PoolAlways, PTL

(* A shortage of connections is contained, in both ways. *)
COROLLARY ShortageContained == PoolSpec => []ShortageIsContained
<1>1. OnlyPaymentsLock /\ RefusedIsWhole => ShortageIsContained
  BY DEF ShortageIsContained
<1> QED BY <1>1, LockIsPayments, RefusalsWhole, PTL

\* The payments, and the requests about their bookings.
Contenders == {r \in Requests : \E p \in Payments : Of[p] = Of[r]}

(* With fewer requests about bookings that are being paid than connections the service
   never locks, however many other requests there are. *)
COROLLARY FewContendersNeverLock ==
    ASSUME Cardinality(Contenders) < Size
    PROVE  PoolSpec => []~Locked
<1>1. PoolInv => ~Locked
  <2> SUFFICES ASSUME PoolInv, Locked PROVE FALSE
    OBVIOUS
  <2>1. IsFiniteSet(Contenders) /\ Cardinality(Contenders) \in Nat
    BY FS_Subset, FS_CardinalityType, PoolAssumption DEF Contenders
  <2>2. open \cup using \subseteq Contenders
    <3>1. open \subseteq Payments /\ using \subseteq Requests
      BY DEF PoolInv, PoolTypeOK
    <3>2. \A r \in using : \E p \in open : Of[p] = Of[r]
      BY LockHolders
    <3> QED BY <3>1, <3>2 DEF Contenders, Requests
  <2>3. Cardinality(open \cup using) <= Cardinality(Contenders)
    BY <2>1, <2>2, FS_Subset
  <2>4. Cardinality(open \cup using) = Cardinality(open) + Cardinality(using) - Cardinality(open \cap using)
    BY SetsFinite, FS_Union
  <2>5. Cardinality(open \cap using) = 0
    BY LockHolders, FS_EmptySet
  <2>6. Cardinality(open) + Cardinality(using) = Size
    BY SetsFinite DEF Locked, Used
  <2> QED BY <2>1, <2>3, <2>4, <2>5, <2>6, SetsFinite, PoolAssumption
<1> QED BY <1>1, PoolAlways, PTL

-------------------------------------------------------------------------------
(* The parts side by side *)

(* A behaviour of Services is one of each part: in every step each part does what it
   does by itself, or stays as it is. *)
THEOREM PartsUndisturbed ==
    ServicesSpec => NotificationsSpec /\ PoolSpec /\ DeparturesSpec
<1>1. ServicesInit => NotificationsInit /\ PoolInit /\ DeparturesInit
  BY DEF ServicesInit
<1>2. [ServicesNext]_servicesVars =>
         [NotificationsNext]_notificationVars /\ [PoolNext]_poolVars /\ [DeparturesNext]_departureVars
  <2>1. ServicesNext =>
           [NotificationsNext]_notificationVars /\ [PoolNext]_poolVars /\ [DeparturesNext]_departureVars
    BY DEF ServicesNext
  <2>2. UNCHANGED servicesVars => UNCHANGED <<notificationVars, poolVars, departureVars>>
    BY DEF servicesVars
  <2> QED BY <2>1, <2>2
<1> QED
  BY <1>1, <1>2, PTL DEF ServicesSpec, NotificationsSpec, PoolSpec, DeparturesSpec

(* The type invariant of the parts together. *)
COROLLARY ServicesTypeCorrect == ServicesSpec => []ServicesTypeOK
<1>1. NotificationsTypeOK /\ PoolTypeOK /\ DeparturesTypeOK => ServicesTypeOK
  BY DEF ServicesTypeOK
<1> QED
  BY <1>1, PartsUndisturbed, NotificationsTypeCorrect, PoolTypeCorrect, DeparturesTypeCorrect, PTL

(* The promises of the parts hold of them together: records and reminders are true of
   mails and departures, and a shortage of connections is contained. *)
COROLLARY ServicesSafe ==
    ServicesSpec =>
        /\ []RecordsAreTrue /\ []NoSpareMail
        /\ []ShortageIsContained
        /\ []RemindedInTime /\ []OnlyChangesMislead
  BY PartsUndisturbed, RecordsTrue, NoMailIsSpare, ShortageContained, DueIsListed, MisledByChange, PTL

===============================================================================
