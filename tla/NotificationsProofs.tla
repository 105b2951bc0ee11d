-------------------------- MODULE NotificationsProofs --------------------------
(***************************************************************************)
(* What was acknowledged is accounted for and what is shown as sent was    *)
(* mailed, for any events, departures, runs of the job and failures.       *)
(***************************************************************************)
EXTENDS Notifications, SequenceTheorems, FiniteSetTheorems, TLAPS

Handling == [at : HandlerSteps \cup {"idle"}, topic : Topics \cup {Nothing}, todo : SUBSET Legs,
             row : Nat, verdict : {"PENDING", "SENT", "FAILED"}]
Row == [topic : Topics, status : {"PENDING", "SENT", "FAILED"}]

\* Where the start of the service stands, by its subscriptions.
BootCounts ==
    /\ boot = "down" => consumers = 0
    /\ boot = "connect" => consumers < 3

\* An event's handler is about that event and is not a run of the job.
OwnTopic ==
    \A e \in Events : At(e, "idle") \/ (Topic(e) = e /\ ~At(e, "list") /\ ~At(e, "check"))

TypeInv == NotificationsTypeOK /\ BootCounts /\ OwnTopic

LEMMA TypeInit == NotificationsInit => TypeInv
<1> SUFFICES ASSUME NotificationsInit PROVE TypeInv
  OBVIOUS
<1>1. task \in [Tasks -> Handling] /\ \A t \in Tasks : task[t] = Idle
  BY DEF NotificationsInit, Idle, Handling
<1>2. \A t \in Tasks : At(t, "idle") /\ ~At(t, "mail") /\ ~At(t, "save")
  BY <1>1 DEF At, Idle
<1>3. unsent \subseteq Events /\ due \subseteq Runs /\ maxFaults \in Nat
  BY NotificationsAssumption DEF NotificationsInit
<1> QED
  BY <1>1, <1>2, <1>3 DEF NotificationsInit, TypeInv, NotificationsTypeOK, BootCounts, OwnTopic, Handling, Row, Tasks

(* One handler moves on, about its topic, and rows are appended or written. *)
LEMMA TypeGoes ==
    ASSUME TypeInv, NEW t \in Tasks,
           task' \in [Tasks -> Handling], \A u \in Tasks : u # t => task'[u] = task[u],
           \/ At(t, "idle")'
           \/ (At(t, "list") \/ At(t, "check"))' /\ t \in Runs
           \/ /\ Topic(t)' \in Topics /\ (t \in Events => Topic(t)' = t)
              /\ ~At(t, "list")' /\ ~At(t, "check")',
           rows' \in Seq(Row), Len(rows') >= Len(rows),
           At(t, "mail")' \/ At(t, "save")' => task'[t].row \in 1 .. Len(rows'),
           mails' \in [Topics -> Nat], muted' \subseteq Topics, silent' \subseteq Topics,
           UNCHANGED <<linked, smtp, unsent, bound, boot, consumers, maxFaults>>,
           queued' \subseteq Events, acked' \subseteq Events,
           due' \subseteq Runs, overlaps' \in Nat, faults' \in 0 .. maxFaults
    PROVE  TypeInv'
<1>1. Len(rows) \in Nat /\ Len(rows') \in Nat
  BY DEF TypeInv, NotificationsTypeOK, Row
<1>2. Events \cap Runs = {} /\ Events \subseteq Tasks
  BY NotificationsAssumption DEF Tasks
<1>3. \A u \in Tasks : ~At(u, "idle")' /\ ~At(u, "list")' /\ ~At(u, "check")' => Topic(u)' \in Topics
  BY DEF TypeInv, NotificationsTypeOK, At, Topic
<1>4. \A u \in Tasks : At(u, "mail")' \/ At(u, "save")' => task'[u].row \in 1 .. Len(rows')
  <2> SUFFICES ASSUME NEW u \in Tasks, At(u, "mail")' \/ At(u, "save")', u # t
        PROVE  task'[u].row \in 1 .. Len(rows')
    OBVIOUS
  <2>1. task[u].row \in 1 .. Len(rows)
    BY DEF TypeInv, NotificationsTypeOK, At
  <2> QED BY <1>1, <2>1
<1>5. OwnTopic'
  BY <1>2 DEF TypeInv, OwnTopic, At, Topic
<1> QED
  BY <1>3, <1>4, <1>5 DEF TypeInv, NotificationsTypeOK, BootCounts, Handling, Row

LEMMA TypeQueue ==
    ASSUME TypeInv,
           \/ \E e \in Events, ok \in BOOLEAN : Publish(e, ok)
           \/ \E e \in Events : Deliver(e)
    PROVE  TypeInv'
<1>1. ASSUME NEW e \in Events, NEW ok \in BOOLEAN, Publish(e, ok) PROVE TypeInv'
  <2>1. faults' \in 0 .. maxFaults
    BY <1>1 DEF Publish, Outcome, Fault, TypeInv, NotificationsTypeOK
  <2>2. unsent' \subseteq Events /\ queued' \subseteq Events
    BY <1>1 DEF Publish, TypeInv, NotificationsTypeOK
  <2> QED
    BY <1>1, <2>1, <2>2 DEF Publish, TypeInv, NotificationsTypeOK, BootCounts, OwnTopic, At, Topic,
                            setup, service, store, job
<1>2. ASSUME NEW e \in Events, Deliver(e) PROVE TypeInv'
  <2>1. e \in Tasks /\ e \in Topics /\ e \notin Runs
    BY NotificationsAssumption DEF Tasks, Topics
  <2>2. task \in [Tasks -> Handling]
    BY DEF TypeInv, NotificationsTypeOK, Handling
  <2>3. /\ Handle(e, e) \in Handling
        /\ Handle(e, e).at = "user" /\ Handle(e, e).topic = e
    BY <2>1, <2>2 DEF Handle, Handling, HandlerSteps
  <2>4. /\ task' \in [Tasks -> Handling] /\ \A u \in Tasks : u # e => task'[u] = task[u]
        /\ task'[e].at = "user" /\ task'[e].topic = e
    BY <1>2, <2>1, <2>2, <2>3 DEF Deliver
  <2>5. /\ rows' \in Seq(Row) /\ Len(rows') >= Len(rows)
        /\ mails' \in [Topics -> Nat] /\ muted' \subseteq Topics /\ silent' \subseteq Topics
        /\ queued' \subseteq Events /\ acked' \subseteq Events
        /\ due' \subseteq Runs /\ overlaps' \in Nat /\ faults' \in 0 .. maxFaults
    BY <1>2 DEF Deliver, store, job, TypeInv, NotificationsTypeOK, Row
  <2>6. UNCHANGED <<linked, smtp, unsent, bound, boot, consumers, maxFaults>>
    BY <1>2 DEF Deliver, setup, service
  <2>7. /\ Topic(e)' \in Topics /\ Topic(e)' = e /\ ~At(e, "list")' /\ ~At(e, "check")'
        /\ ~At(e, "mail")' /\ ~At(e, "save")'
    BY <2>1, <2>4 DEF At, Topic
  <2> QED
    BY <2>1, <2>4, <2>5, <2>6, <2>7, TypeGoes
<1> QED BY <1>1, <1>2

LEMMA TypeBoot ==
    ASSUME TypeInv, Start \/ (\E ok \in BOOLEAN : Subscribe(ok)) \/ Crash
    PROVE  TypeInv'
<1> USE DEF TypeInv, NotificationsTypeOK, BootCounts, OwnTopic, At, Topic
<1>1. CASE Start
  BY <1>1 DEF Start, broker, setup, store, job
<1>2. ASSUME NEW ok \in BOOLEAN, Subscribe(ok) PROVE TypeInv'
  <2>1. faults' \in 0 .. maxFaults
    BY <1>2 DEF Subscribe, Outcome, Fault
  <2>2. /\ bound' \subseteq {"booking", "payment", "register"}
        /\ boot' \in {"connect", "done"} /\ consumers' \in 0 .. 3
        /\ boot' = "connect" => consumers' < 3
    <3>1. Len(Bindings) = 3 /\ \A i \in 1 .. 3 : Bindings[i] \in {"booking", "payment", "register"}
      BY DEF Bindings
    <3>2. consumers \in 0 .. 2 /\ boot = "connect"
      BY <1>2 DEF Subscribe
    <3>3. CASE ok
      <4>1. Bindings[consumers + 1] \in {"booking", "payment", "register"}
        BY <3>1, <3>2
      <4>2. /\ consumers' = consumers + 1 /\ bound' = bound \cup {Bindings[consumers + 1]}
            /\ boot' = IF consumers + 1 = 3 THEN "done" ELSE "connect"
        BY <1>2, <3>1, <3>3 DEF Subscribe
      <4>3. bound \subseteq {"booking", "payment", "register"}
        OBVIOUS
      <4>4. boot' \in {"connect", "done"} /\ (boot' = "connect" => consumers # 2)
        BY <3>2, <4>2
      <4>5. consumers' \in 0 .. 3 /\ (boot' = "connect" => consumers' < 3)
        BY <3>2, <4>2, <4>4
      <4>6. bound' \subseteq {"booking", "payment", "register"}
        BY <4>1, <4>2, <4>3
      <4> QED BY <4>4, <4>5, <4>6
    <3>4. CASE ~ok
      BY <1>2, <3>2, <3>4 DEF Subscribe
    <3> QED BY <3>3, <3>4
  <2> QED BY <1>2, <2>1, <2>2 DEF Subscribe, setup, store, job
<1>3. CASE Crash
  <2>1. /\ task' = [t \in Tasks |-> Idle]
        /\ faults' \in 0 .. maxFaults /\ queued' \subseteq Events
    BY <1>3 DEF Crash, Fault
  <2>2. Idle \in Handling /\ Idle.at = "idle"
    BY DEF Idle, Handling
  <2>3. /\ task' \in [Tasks -> Handling] /\ \A t \in Tasks : task'[t].at = "idle"
    BY <2>1, <2>2
  <2>4. Events \subseteq Tasks
    BY DEF Tasks
  <2> QED BY <1>3, <2>1, <2>3, <2>4 DEF Crash, setup, store, job, Handling
<1> QED BY <1>1, <1>2, <1>3

(* How a handler goes on: with a new place, and a new row or verdict. *)
LEMMA GoingAt ==
    ASSUME TypeInv, NEW t \in Tasks, NEW l \in HandlerSteps, task' = [task EXCEPT ![t].at = l]
    PROVE  /\ task' \in [Tasks -> Handling] /\ \A u \in Tasks : u # t => task'[u] = task[u]
           /\ task'[t].at = l /\ task'[t].topic = task[t].topic
  BY ZenonT(60) DEF TypeInv, NotificationsTypeOK, Handling

LEMMA GoingRow ==
    ASSUME TypeInv, NEW t \in Tasks, NEW l \in HandlerSteps, NEW r \in Nat,
           task' = [task EXCEPT ![t].at = l, ![t].row = r]
    PROVE  /\ task' \in [Tasks -> Handling] /\ \A u \in Tasks : u # t => task'[u] = task[u]
           /\ task'[t].at = l /\ task'[t].topic = task[t].topic /\ task'[t].row = r
  BY ZenonT(60) DEF TypeInv, NotificationsTypeOK, Handling

LEMMA GoingVerdict ==
    ASSUME TypeInv, NEW t \in Tasks, NEW l \in HandlerSteps, NEW v \in {"SENT", "FAILED"},
           task' = [task EXCEPT ![t].at = l, ![t].verdict = v]
    PROVE  /\ task' \in [Tasks -> Handling] /\ \A u \in Tasks : u # t => task'[u] = task[u]
           /\ task'[t].at = l /\ task'[t].topic = task[t].topic
           /\ task'[t].row = task[t].row /\ task'[t].verdict = v
  BY ZenonT(60) DEF TypeInv, NotificationsTypeOK, Handling

(* A step of handleEvent keeps the topic; what it may write is typed. *)
LEMMA TypeHandles ==
    ASSUME TypeInv, NEW t \in Tasks, NEW l \in HandlerSteps \ {"list", "check"},
           ~At(t, "idle"), ~At(t, "list"), ~At(t, "check"),
           task' \in [Tasks -> Handling], \A u \in Tasks : u # t => task'[u] = task[u],
           task'[t].at = l, task'[t].topic = task[t].topic,
           rows' \in Seq(Row), Len(rows') >= Len(rows),
           l \in {"mail", "save"} => task'[t].row \in 1 .. Len(rows'),
           mails' \in [Topics -> Nat], muted' \subseteq Topics, silent' \subseteq Topics,
           UNCHANGED <<broker, setup, service, job>>,
           faults' \in 0 .. maxFaults
    PROVE  TypeInv'
<1>1. /\ Topic(t)' \in Topics /\ (t \in Events => Topic(t)' = t)
      /\ ~At(t, "list")' /\ ~At(t, "check")'
      /\ At(t, "mail")' \/ At(t, "save")' => task'[t].row \in 1 .. Len(rows')
  BY DEF TypeInv, NotificationsTypeOK, OwnTopic, At, Topic
<1>2. /\ UNCHANGED <<linked, smtp, unsent, bound, boot, consumers, maxFaults>>
      /\ queued' \subseteq Events /\ acked' \subseteq Events
      /\ due' \subseteq Runs /\ overlaps' \in Nat
  BY DEF TypeInv, NotificationsTypeOK, broker, setup, service, job
<1> QED
  BY <1>1, <1>2, TypeGoes

LEMMA OutcomeType == ASSUME TypeInv, NEW ok \in BOOLEAN, Outcome(ok) PROVE faults' \in 0 .. maxFaults
  BY DEF TypeInv, NotificationsTypeOK, Outcome, Fault

(* A row is overwritten with another status. *)
LEMMA RowsWritten ==
    ASSUME rows \in Seq(Row), NEW i \in 1 .. Len(rows), NEW v \in {"PENDING", "SENT", "FAILED"},
           rows' = [rows EXCEPT ![i].status = v]
    PROVE  /\ rows' \in Seq(Row) /\ Len(rows') = Len(rows)
           /\ \A j \in 1 .. Len(rows) :
                 /\ rows'[j].topic = rows[j].topic
                 /\ rows'[j] = IF j = i THEN [topic |-> rows[i].topic, status |-> v] ELSE rows[j]
<1> DEFINE r == [topic |-> rows[i].topic, status |-> v]
<1>1. rows[i] \in Row
  OBVIOUS
<1>2. [rows[i] EXCEPT !.status = v] = r /\ r \in Row
  BY <1>1 DEF Row
<1>3. rows' = [rows EXCEPT ![i] = r]
  BY <1>2
<1>4. rows' \in Seq(Row) /\ Len(rows') = Len(rows)
      /\ \A j \in 1 .. Len(rows) : rows'[j] = IF j = i THEN r ELSE rows[j]
  <2> HIDE DEF r
  <2> QED BY <1>2, <1>3, ExceptSeq
<1> QED BY <1>4

LEMMA TypeHandle ==
    ASSUME TypeInv, NEW t \in Tasks, NEW ok \in BOOLEAN, HandleStep(t, ok)
    PROVE  TypeInv'
<1>1. /\ Topic(t) \in Topics
      /\ ~At(t, "idle") /\ ~At(t, "list") /\ ~At(t, "check")
      /\ At(t, "mail") \/ At(t, "save") => task[t].row \in 1 .. Len(rows)
  BY DEF TypeInv, NotificationsTypeOK, HandleStep, FetchUser, FetchBooking, CreateRecord, SendMail,
         SaveRecord, Catch, At
<1>2. /\ rows \in Seq(Row) /\ Len(rows) \in Nat
      /\ mails \in [Topics -> Nat] /\ muted \subseteq Topics /\ silent \subseteq Topics
  BY DEF TypeInv, NotificationsTypeOK, Row
<1>3. CASE FetchUser(t, ok) \/ FetchBooking(t, ok)
  <2>1. /\ faults' \in 0 .. maxFaults
        /\ UNCHANGED <<broker, setup, service, store, job>>
    BY <1>3, OutcomeType DEF FetchUser, FetchBooking
  <2>2. PICK l \in {"catch", "record", "booking"} : task' = [task EXCEPT ![t].at = l]
    BY <1>3 DEF FetchUser, FetchBooking, Goto
  <2>3. l \in HandlerSteps \ {"list", "check"} /\ l \notin {"mail", "save"}
    BY DEF HandlerSteps
  <2>4. UNCHANGED <<rows, mails, muted, silent>>
    BY <2>1 DEF store
  <2>5. /\ task' \in [Tasks -> Handling] /\ \A u \in Tasks : u # t => task'[u] = task[u]
        /\ task'[t].at = l /\ task'[t].topic = task[t].topic
    BY <2>2, <2>3, GoingAt
  <2> QED BY <1>1, <1>2, <2>1, <2>3, <2>4, <2>5, TypeHandles
<1>4. CASE CreateRecord(t, ok)
  <2>1. /\ faults' \in 0 .. maxFaults
        /\ UNCHANGED <<broker, setup, service, mails, muted, silent, job>>
    BY <1>4, OutcomeType DEF CreateRecord
  <2>2. CASE ok
    <3>1. /\ rows' = Append(rows, [topic |-> Topic(t), status |-> "PENDING"])
          /\ task' = [task EXCEPT ![t].at = "mail", ![t].row = Len(rows) + 1]
      BY <1>4, <2>2 DEF CreateRecord
    <3>2. rows' \in Seq(Row) /\ Len(rows') = Len(rows) + 1
      BY <1>1, <1>2, <3>1 DEF Row
    <3>3. "mail" \in HandlerSteps \ {"list", "check"} /\ Len(rows) + 1 \in Nat
      BY <1>2 DEF HandlerSteps
    <3>4. /\ task' \in [Tasks -> Handling] /\ \A u \in Tasks : u # t => task'[u] = task[u]
          /\ task'[t].at = "mail" /\ task'[t].topic = task[t].topic
          /\ task'[t].row = Len(rows) + 1
      BY <3>1, <3>3, GoingRow, ZenonT(60)
    <3>5. task'[t].row \in 1 .. Len(rows') /\ Len(rows') >= Len(rows)
      BY <1>2, <3>2, <3>4
    <3> QED BY <1>1, <1>2, <2>1, <3>2, <3>3, <3>4, <3>5, TypeHandles
  <2>3. CASE ~ok
    <3>1. rows' = rows /\ task' = [task EXCEPT ![t].at = "catch"]
      BY <1>4, <2>3 DEF CreateRecord, Goto
    <3>2. "catch" \in HandlerSteps \ {"list", "check"}
      BY DEF HandlerSteps
    <3>3. /\ task' \in [Tasks -> Handling] /\ \A u \in Tasks : u # t => task'[u] = task[u]
          /\ task'[t].at = "catch" /\ task'[t].topic = task[t].topic
      BY <3>1, <3>2, GoingAt
    <3>4. "catch" \notin {"mail", "save"} /\ Len(rows') >= Len(rows)
      BY <1>2, <3>1
    <3> QED BY <1>1, <1>2, <2>1, <3>1, <3>2, <3>3, <3>4, TypeHandles
  <2> QED BY <2>2, <2>3
<1>5. CASE SendMail(t, ok)
  <2>1. /\ faults' \in 0 .. maxFaults
        /\ UNCHANGED <<broker, setup, service, rows, silent, job>>
    BY <1>5, OutcomeType DEF SendMail
  <2>2. PICK v \in {"SENT", "FAILED"} : task' = [task EXCEPT ![t].at = "save", ![t].verdict = v]
    BY <1>5 DEF SendMail
  <2>3. mails' \in [Topics -> Nat] /\ muted' \subseteq Topics
    BY <1>1, <1>2, <1>5 DEF SendMail
  <2>4. "save" \in HandlerSteps \ {"list", "check"} /\ At(t, "mail")
    BY <1>5 DEF HandlerSteps, SendMail
  <2>5. /\ task' \in [Tasks -> Handling] /\ \A u \in Tasks : u # t => task'[u] = task[u]
        /\ task'[t].at = "save" /\ task'[t].topic = task[t].topic
        /\ task'[t].row = task[t].row
    BY <2>2, <2>4, GoingVerdict
  <2>6. task'[t].row \in 1 .. Len(rows') /\ Len(rows') >= Len(rows) /\ rows' \in Seq(Row)
    BY <1>1, <1>2, <2>1, <2>4, <2>5
  <2> QED BY <1>1, <1>2, <2>1, <2>3, <2>4, <2>5, <2>6, TypeHandles
<1>6. CASE SaveRecord(t, ok)
  <2>1. /\ faults' \in 0 .. maxFaults
        /\ UNCHANGED <<broker, setup, service, mails, muted, silent, job>>
    BY <1>6, OutcomeType DEF SaveRecord
  <2>2. PICK l \in {"catch", "end"} : task' = [task EXCEPT ![t].at = l]
    BY <1>6 DEF SaveRecord, Goto
  <2>3. l \in HandlerSteps \ {"list", "check"} /\ l \notin {"mail", "save"}
    BY DEF HandlerSteps
  <2>4. rows' \in Seq(Row) /\ Len(rows') = Len(rows)
    <3>1. task[t].verdict \in {"PENDING", "SENT", "FAILED"}
      BY DEF TypeInv, NotificationsTypeOK
    <3>2. task[t].row \in 1 .. Len(rows)
      BY <1>1, <1>6 DEF SaveRecord
    <3>3. CASE rows' = rows
      BY <1>2, <3>3
    <3>4. CASE rows' = [rows EXCEPT ![task[t].row].status = task[t].verdict]
      BY <1>2, <3>1, <3>2, <3>4, RowsWritten
    <3> QED BY <1>6, <3>3, <3>4 DEF SaveRecord
  <2>5. /\ task' \in [Tasks -> Handling] /\ \A u \in Tasks : u # t => task'[u] = task[u]
        /\ task'[t].at = l /\ task'[t].topic = task[t].topic
    BY <2>2, <2>3, GoingAt
  <2>6. Len(rows') >= Len(rows)
    BY <1>2, <2>4
  <2> QED BY <1>1, <1>2, <2>1, <2>3, <2>4, <2>5, <2>6, TypeHandles
<1>7. CASE Catch(t, ok)
  <2>1. /\ faults' \in 0 .. maxFaults
        /\ UNCHANGED <<broker, setup, service, mails, muted, job>>
        /\ task' = [task EXCEPT ![t].at = "end"]
    BY <1>7, OutcomeType DEF Catch, Goto
  <2>2. rows' \in Seq(Row) /\ Len(rows') >= Len(rows) /\ silent' \subseteq Topics
    <3>1. CASE ok /\ t \in Events
      <4>1. rows' = Append(rows, [topic |-> Topic(t), status |-> "FAILED"]) /\ silent' = silent
        BY <1>7, <3>1 DEF Catch
      <4>2. [topic |-> Topic(t), status |-> "FAILED"] \in Row
        BY <1>1 DEF Row
      <4>3. rows' \in Seq(Row) /\ Len(rows') = Len(rows) + 1
        BY <1>2, <4>1, <4>2
      <4> QED BY <1>2, <4>1, <4>3
    <3>2. CASE ~(ok /\ t \in Events)
      <4>1. rows' = rows /\ silent' = silent \cup {Topic(t)}
        BY <1>7, <3>2 DEF Catch
      <4> QED BY <1>1, <1>2, <4>1
    <3> QED BY <3>1, <3>2
  <2>3. "end" \in HandlerSteps \ {"list", "check"}
    BY DEF HandlerSteps
  <2>4. /\ task' \in [Tasks -> Handling] /\ \A u \in Tasks : u # t => task'[u] = task[u]
        /\ task'[t].at = "end" /\ task'[t].topic = task[t].topic
    BY <2>1, <2>3, GoingAt
  <2>5. "end" \notin {"mail", "save"}
    OBVIOUS
  <2> QED BY <1>1, <1>2, <2>1, <2>2, <2>3, <2>4, <2>5, TypeHandles
<1> QED
  BY <1>3, <1>4, <1>5, <1>6, <1>7 DEF HandleStep

(* The steps of a run of the job, and the acknowledgement: back to idle, to *)
(* the list, to the next leg, or into handleEvent with a leg as the topic.  *)
LEMMA TypeMoves ==
    ASSUME TypeInv, NEW t \in Tasks, NEW h \in Handling, task' = [task EXCEPT ![t] = h],
           \/ h.at = "idle"
           \/ h.at \in {"list", "check"} /\ t \in Runs
           \/ h.at = "user" /\ h.topic \in Topics /\ t \in Runs,
           UNCHANGED <<linked, unsent, bound, queued, setup, service, store>>,
           acked' \subseteq Events, overlaps' \in Nat,
           due' \subseteq Runs, faults' \in 0 .. maxFaults
    PROVE  TypeInv'
<1>1. /\ task' \in [Tasks -> Handling] /\ \A u \in Tasks : u # t => task'[u] = task[u]
      /\ task'[t] = h
  <2> task \in [Tasks -> Handling]
    BY DEF TypeInv, NotificationsTypeOK, Handling
  <2> QED OBVIOUS
<1>2. Events \cap Runs = {}
  BY NotificationsAssumption
<1>3. \/ At(t, "idle")'
      \/ (At(t, "list") \/ At(t, "check"))' /\ t \in Runs
      \/ /\ Topic(t)' \in Topics /\ (t \in Events => Topic(t)' = t)
         /\ ~At(t, "list")' /\ ~At(t, "check")'
  BY <1>1, <1>2 DEF At, Topic
<1>4. At(t, "mail")' \/ At(t, "save")' => task'[t].row \in 1 .. Len(rows')
  BY <1>1 DEF At
<1>5. /\ UNCHANGED <<linked, smtp, unsent, bound, boot, consumers, maxFaults, queued,
                     rows, mails, muted, silent>>
  BY DEF setup, service, store
<1>6. /\ rows' \in Seq(Row) /\ Len(rows') >= Len(rows)
      /\ mails' \in [Topics -> Nat] /\ muted' \subseteq Topics /\ silent' \subseteq Topics
      /\ queued' \subseteq Events
  BY <1>5 DEF TypeInv, NotificationsTypeOK, Row
<1> QED
  BY <1>1, <1>3, <1>4, <1>5, <1>6, TypeGoes

LEMMA IdleType == Idle \in Handling /\ Idle.at = "idle"
  BY DEF Idle, Handling

LEMMA HandlingType ==
    ASSUME TypeInv, NEW t \in Tasks
    PROVE  task[t] \in Handling /\ task[t].todo \subseteq Legs
  BY DEF TypeInv, NotificationsTypeOK, Handling

LEMMA TypeAck == ASSUME TypeInv, NEW e \in Events, Ack(e) PROVE TypeInv'
<1>1. /\ e \in Tasks /\ task' = [task EXCEPT ![e] = Idle] /\ acked' \subseteq Events
      /\ due' \subseteq Runs /\ overlaps' \in Nat /\ faults' \in 0 .. maxFaults
      /\ UNCHANGED <<linked, unsent, bound, queued, setup, service, store>>
  BY DEF Ack, TypeInv, NotificationsTypeOK, Tasks, job
<1> QED BY <1>1, IdleType, TypeMoves

(* What a run's handler becomes. *)
LEMMA CheckType ==
    ASSUME NEW todo \in SUBSET Legs
    PROVE  LET h == [Idle EXCEPT !.at = "check", !.todo = todo]
           IN  h \in Handling /\ h.at = "check" /\ h.todo = todo
  BY DEF Idle, Handling, HandlerSteps

LEMMA TypeRuns ==
    ASSUME TypeInv, NEW w \in Tasks,
           \/ w \in Runs /\ RunStart(w)
           \/ w \in Runs /\ \E ok \in BOOLEAN : RunList(w, ok)
           \/ w \in Runs /\ \E x \in Legs, ok \in BOOLEAN : RunCheck(w, x, ok)
           \/ RunNext(w)
    PROVE  TypeInv'
<1>1. w \in Runs /\ task[w] \in Handling /\ task[w].todo \subseteq Legs
  BY HandlingType DEF RunNext
<1>2. CASE RunStart(w)
  <2> DEFINE h == [task[w] EXCEPT !.at = "list"]
  <2>1. h \in Handling /\ h.at = "list"
    BY <1>1 DEF Handling, HandlerSteps
  <2>2. task' = [task EXCEPT ![w] = h]
    BY <1>2 DEF RunStart, Goto
  <2>3. /\ UNCHANGED <<linked, unsent, bound, queued, setup, service, store>>
        /\ acked' \subseteq Events /\ overlaps' \in Nat
        /\ due' \subseteq Runs /\ faults' \in 0 .. maxFaults
    BY <1>2 DEF RunStart, TypeInv, NotificationsTypeOK, broker
  <2> HIDE DEF h
  <2> QED BY <1>1, <2>1, <2>2, <2>3, TypeMoves
<1>3. ASSUME NEW ok \in BOOLEAN, RunList(w, ok) PROVE TypeInv'
  <2>1. /\ UNCHANGED <<broker, setup, service, store, job>> /\ faults' \in 0 .. maxFaults
    BY <1>3, OutcomeType DEF RunList
  <2>2. /\ due' \subseteq Runs /\ overlaps' \in Nat /\ acked' \subseteq Events
        /\ UNCHANGED <<linked, unsent, bound, queued, setup, service, store>>
    BY <2>1 DEF broker, job, TypeInv, NotificationsTypeOK
  <2> DEFINE h == [Idle EXCEPT !.at = "check", !.todo = Legs]
  <2>3. h \in Handling /\ h.at = "check"
    BY CheckType
  <2>4. CASE task' = [task EXCEPT ![w] = h]
    <3> HIDE DEF h
    <3> QED BY <1>1, <2>1, <2>2, <2>3, <2>4, TypeMoves
  <2>5. CASE task' = [task EXCEPT ![w] = Idle]
    BY <2>1, <2>2, <2>5, IdleType, TypeMoves
  <2> QED BY <1>3, <2>4, <2>5 DEF RunList
<1>4. ASSUME NEW x \in Legs, NEW ok \in BOOLEAN, RunCheck(w, x, ok) PROVE TypeInv'
  <2>1. /\ UNCHANGED <<broker, setup, service, store, job>> /\ faults' \in 0 .. maxFaults
    BY <1>4, OutcomeType DEF RunCheck
  <2>2. /\ due' \subseteq Runs /\ overlaps' \in Nat /\ acked' \subseteq Events
        /\ UNCHANGED <<linked, unsent, bound, queued, setup, service, store>>
    BY <2>1 DEF broker, job, TypeInv, NotificationsTypeOK
  <2> DEFINE rest == task[w].todo \ {x}
             g == [task[w] EXCEPT !.todo = rest]
             h == [Handle(w, x) EXCEPT !.todo = rest]
  <2>3. g \in Handling /\ g.at = "check"
    BY <1>1, <1>4 DEF Handling, RunCheck, At
  <2>4. h \in Handling /\ h.at = "user" /\ h.topic \in Topics
    BY <1>1 DEF Handling, Handle, HandlerSteps, Topics
  <2>5. CASE task' = [task EXCEPT ![w] = Idle]
    BY <2>1, <2>2, <2>5, IdleType, TypeMoves
  <2>6. CASE task' = [task EXCEPT ![w] = g]
    <3> HIDE DEF g
    <3> QED BY <1>1, <2>1, <2>2, <2>3, <2>6, TypeMoves
  <2>7. CASE task' = [task EXCEPT ![w] = h]
    <3> HIDE DEF h
    <3> QED BY <1>1, <2>1, <2>2, <2>4, <2>7, TypeMoves
  <2>8. \/ task' = [task EXCEPT ![w] = Idle] \/ task' = [task EXCEPT ![w] = g]
        \/ task' = [task EXCEPT ![w] = h]
    BY <1>4 DEF RunCheck
  <2> QED BY <2>5, <2>6, <2>7, <2>8
<1>5. CASE RunNext(w)
  <2>1. /\ UNCHANGED <<linked, unsent, bound, queued, setup, service, store>>
        /\ acked' \subseteq Events /\ overlaps' \in Nat
        /\ due' \subseteq Runs /\ faults' \in 0 .. maxFaults
    BY <1>5 DEF RunNext, broker, job, TypeInv, NotificationsTypeOK
  <2> DEFINE h == [Idle EXCEPT !.at = "check", !.todo = task[w].todo]
  <2>3. h \in Handling /\ h.at = "check"
    BY <1>1, CheckType
  <2>4. CASE task' = [task EXCEPT ![w] = h]
    <3> HIDE DEF h
    <3> QED BY <1>1, <2>1, <2>3, <2>4, TypeMoves
  <2>5. CASE task' = [task EXCEPT ![w] = Idle]
    BY <2>1, <2>5, IdleType, TypeMoves
  <2> QED BY <1>5, <2>4, <2>5 DEF RunNext
<1> QED BY <1>2, <1>3, <1>4, <1>5

(* A step of the job is of a run: an event's handler is never at its steps. *)
LEMMA TypeStep == ASSUME TypeInv, [NotificationsNext]_notificationVars PROVE TypeInv'
<1>1. Tasks = Events \cup Runs
  BY DEF Tasks
<1>2. ASSUME NEW t \in Tasks, Work(t) PROVE TypeInv'
  <2>1. ASSUME NEW ok \in BOOLEAN, RunList(t, ok) PROVE t \in Runs
    BY <1>1, <2>1 DEF RunList, TypeInv, OwnTopic, At
  <2>2. ASSUME NEW x \in Legs, NEW ok \in BOOLEAN, RunCheck(t, x, ok) PROVE t \in Runs
    BY <1>1, <2>2 DEF RunCheck, TypeInv, OwnTopic, At
  <2>3. Ack(t) => t \in Events
    BY DEF Ack
  <2>4. CASE Ack(t)
    BY <2>3, <2>4, TypeAck
  <2>5. CASE \E ok \in BOOLEAN : HandleStep(t, ok)
    BY <2>5, TypeHandle
  <2> QED BY <1>2, <2>1, <2>2, <2>4, <2>5, TypeRuns DEF Work
<1>3. ASSUME NEW w \in Runs, RunStart(w) PROVE TypeInv'
  BY <1>1, <1>3, TypeRuns
<1>4. CASE UNCHANGED notificationVars
  BY <1>4 DEF notificationVars, broker, setup, service, store, job, TypeInv, NotificationsTypeOK, BootCounts, OwnTopic,
              At, Topic
<1> QED BY <1>2, <1>3, <1>4, TypeQueue, TypeBoot DEF NotificationsNext

(* The type invariant: every record, queue and handler keeps its shape, an   *)
(* open handler has a topic, and one that writes a row has that row.         *)
THEOREM NotificationsTypeCorrect == NotificationsSpec => []NotificationsTypeOK
<1>1. TypeInv => NotificationsTypeOK
  BY DEF TypeInv
<1> QED BY <1>1, TypeInit, TypeStep, PTL DEF NotificationsSpec

-------------------------------------------------------------------------------
(* What the rows and the acknowledgements mean *)

Writes(t) == At(t, "mail") \/ At(t, "save")

\* A handler between its INSERT and its save has a PENDING row of its own.
RowsOwned ==
    \A t \in Tasks : Writes(t) =>
        /\ rows[task[t].row].topic = Topic(t) /\ rows[task[t].row].status = "PENDING"
        /\ \A u \in Tasks : Writes(u) /\ u # t => task[u].row # task[t].row

\* The status about to be saved says what became of the mail.
VerdictIsTrue ==
    \A t \in Tasks : At(t, "save") =>
        \/ task[t].verdict = "FAILED"
        \/ task[t].verdict = "SENT" /\ (mails[Topic(t)] > 0 \/ Topic(t) \in muted)

Accounted(e) ==
    \/ mails[e] > 0
    \/ \E i \in DOMAIN rows : rows[i] = [topic |-> e, status |-> "FAILED"]
    \/ e \in muted \cup silent

\* An event whose handler is done, and will be acknowledged, is accounted for.
EndsAccounted == \A e \in Events : At(e, "end") => Accounted(e)

SafeInv == RowsOwned /\ VerdictIsTrue /\ EndsAccounted /\ SentRowIsTrue /\ AckedIsAccountedFor

\* Mails and failures on record stay.
Keeps ==
    /\ \A x \in Topics : mails[x] > 0 => mails'[x] > 0
    /\ muted \subseteq muted' /\ silent \subseteq silent'
    /\ \A i \in 1 .. Len(rows) :
          rows[i].status = "FAILED" => i \in 1 .. Len(rows') /\ rows'[i] = rows[i]

LEMMA SafeInit == NotificationsInit => SafeInv
<1> SUFFICES ASSUME NotificationsInit PROVE SafeInv
  OBVIOUS
<1>1. \A t \in Tasks : task[t] = Idle
  BY DEF NotificationsInit
<1>2. \A t \in Tasks : ~Writes(t) /\ ~At(t, "save") /\ ~At(t, "end")
  BY <1>1 DEF Writes, At, Idle
<1>3. rows = <<>> /\ acked = {} /\ Events \subseteq Tasks
  BY DEF NotificationsInit, Tasks
<1>4. DOMAIN rows = {}
  BY <1>3
<1> QED
  BY <1>2, <1>3, <1>4 DEF SafeInv, RowsOwned, VerdictIsTrue, EndsAccounted, SentRowIsTrue,
                          AckedIsAccountedFor

LEMMA AccountedStays ==
    ASSUME TypeInv, TypeInv', NEW e \in Events, Accounted(e), Keeps
    PROVE  Accounted(e)'
<1>1. e \in Topics /\ DOMAIN rows = 1 .. Len(rows) /\ DOMAIN rows' = 1 .. Len(rows')
  BY DEF Topics, TypeInv, NotificationsTypeOK
<1>2. CASE mails[e] > 0
  BY <1>1, <1>2 DEF Keeps, Accounted
<1>3. CASE e \in muted \cup silent
  BY <1>3 DEF Keeps, Accounted
<1>4. ASSUME NEW i \in DOMAIN rows, rows[i] = [topic |-> e, status |-> "FAILED"]
      PROVE  Accounted(e)'
  <2>1. i \in DOMAIN rows' /\ rows'[i] = rows[i]
    BY <1>1, <1>4 DEF Keeps
  <2> QED BY <1>4, <2>1 DEF Accounted
<1> QED BY <1>2, <1>3, <1>4 DEF Accounted

LEMMA EndsStay ==
    ASSUME TypeInv, TypeInv', SafeInv, Keeps,
           \A e \in Events : At(e, "end")' => At(e, "end") \/ Accounted(e)',
           \A e \in acked' : e \in acked \/ At(e, "end")
    PROVE  EndsAccounted' /\ AckedIsAccountedFor'
<1>1. \A e \in Events : At(e, "end") => Accounted(e)'
  BY AccountedStays DEF SafeInv, EndsAccounted
<1>2. acked \subseteq Events /\ acked' \subseteq Events
  BY DEF TypeInv, NotificationsTypeOK
<1>3. \A e \in acked : Accounted(e)
  BY DEF SafeInv, AckedIsAccountedFor, Accounted
<1>4. \A e \in acked : Accounted(e)'
  BY <1>2, <1>3, AccountedStays
<1> QED BY <1>1, <1>2, <1>4 DEF EndsAccounted, AckedIsAccountedFor, Accounted

(* Steps that leave rows and mails alone and bring no handler to a write.    *)
LEMMA SafeQuiet ==
    ASSUME TypeInv, TypeInv', SafeInv, UNCHANGED store,
           \A t \in Tasks : Writes(t)' => task'[t] = task[t],
           \A e \in Events : At(e, "end")' => At(e, "end"),
           \A e \in acked' : e \in acked \/ At(e, "end")
    PROVE  SafeInv'
<1>1. UNCHANGED <<rows, mails, muted, silent>>
  BY DEF store
<1>2. Keeps
  BY <1>1 DEF Keeps
<1>3. \A t \in Tasks : Writes(t)' => Writes(t) /\ Topic(t)' = Topic(t)
  BY DEF Writes, At, Topic
<1>4. RowsOwned'
  BY <1>1, <1>3 DEF SafeInv, RowsOwned
<1>5. VerdictIsTrue'
  BY <1>1, <1>3 DEF SafeInv, VerdictIsTrue, Writes, At
<1>6. SentRowIsTrue'
  BY <1>1 DEF SafeInv, SentRowIsTrue
<1>7. EndsAccounted' /\ AckedIsAccountedFor'
  BY <1>2, EndsStay
<1> QED BY <1>4, <1>5, <1>6, <1>7 DEF SafeInv

(* One handler moves to a place where it writes nothing. *)
LEMMA SafeQuietMove ==
    ASSUME TypeInv, TypeInv', SafeInv, UNCHANGED store, NEW t \in Tasks,
           \A u \in Tasks : u # t => task'[u] = task[u],
           task'[t].at \notin {"mail", "save", "end"},
           \A e \in acked' : e \in acked \/ At(e, "end")
    PROVE  SafeInv'
<1>1. \A u \in Tasks : Writes(u)' => task'[u] = task[u]
  BY DEF Writes, At
<1>2. \A e \in Events : At(e, "end")' => At(e, "end")
  <2>1. Events \subseteq Tasks
    BY DEF Tasks
  <2> QED BY <2>1 DEF At
<1> QED BY <1>1, <1>2, SafeQuiet

LEMMA SafeAround ==
    ASSUME TypeInv, TypeInv', SafeInv,
           \/ \E e \in Events, ok \in BOOLEAN : Publish(e, ok)
           \/ \E e \in Events : Deliver(e)
           \/ Start \/ (\E ok \in BOOLEAN : Subscribe(ok)) \/ Crash
           \/ UNCHANGED notificationVars
    PROVE  SafeInv'
<1>1. CASE \/ \E e \in Events, ok \in BOOLEAN : Publish(e, ok)
           \/ Start \/ (\E ok \in BOOLEAN : Subscribe(ok))
           \/ UNCHANGED notificationVars
  <2>1. UNCHANGED <<task, acked, store>>
    BY <1>1 DEF Publish, Start, Subscribe, notificationVars, broker
  <2> QED BY <2>1, SafeQuiet DEF At
<1>2. ASSUME NEW e \in Events, Deliver(e) PROVE SafeInv'
  <2>1. task \in [Tasks -> Handling] /\ e \in Tasks
    BY DEF TypeInv, NotificationsTypeOK, Handling, Tasks
  <2>2. task[e] \in Handling
    BY <2>1
  <2>3. Handle(e, e).at = "user"
    BY <2>2 DEF Handle, Handling
  <2>4. task'[e].at = "user" /\ \A u \in Tasks : u # e => task'[u] = task[u]
    BY <1>2, <2>1, <2>3 DEF Deliver
  <2>5. UNCHANGED <<acked, store>>
    BY <1>2 DEF Deliver
  <2> QED BY <2>1, <2>4, <2>5, SafeQuietMove
<1>3. CASE Crash
  <2>1. UNCHANGED <<acked, store>> /\ \A t \in Tasks : task'[t] = Idle
    BY <1>3 DEF Crash
  <2>2. \A t \in Tasks : ~Writes(t)' /\ ~At(t, "end")'
    BY <2>1 DEF Writes, At, Idle
  <2>3. Events \subseteq Tasks
    BY DEF Tasks
  <2> QED BY <2>1, <2>2, <2>3, SafeQuiet
<1> QED BY <1>1, <1>2, <1>3

LEMMA SafeJob ==
    ASSUME TypeInv, TypeInv', SafeInv, NEW t \in Tasks,
           \/ RunStart(t)
           \/ \E ok \in BOOLEAN : RunList(t, ok)
           \/ \E x \in Legs, ok \in BOOLEAN : RunCheck(t, x, ok)
           \/ RunNext(t)
           \/ Ack(t)
           \/ \E ok \in BOOLEAN : FetchUser(t, ok) \/ FetchBooking(t, ok)
    PROVE  SafeInv'
<1>1. UNCHANGED store /\ \A e \in acked' : e \in acked \/ At(e, "end")
  BY DEF RunStart, RunList, RunCheck, RunNext, Ack, FetchUser, FetchBooking, broker
<1>2. task \in [Tasks -> Handling] /\ task[t] \in Handling
  BY DEF TypeInv, NotificationsTypeOK, Handling
<1>3. Idle.at = "idle" /\ \A todo : [Idle EXCEPT !.at = "check", !.todo = todo].at = "check"
  BY DEF Idle
<1>4. \A l : [task[t] EXCEPT !.at = l].at = l
  BY <1>2 DEF Handling
<1>5. \A u \in Tasks : u # t => task'[u] = task[u]
  BY <1>2 DEF RunStart, RunList, RunCheck, RunNext, Ack, FetchUser, FetchBooking, Goto
<1>6. task'[t].at \notin {"mail", "save", "end"}
  <2>1. CASE RunStart(t)
    BY <1>2, <1>4, <2>1 DEF RunStart, Goto
  <2>2. CASE \E ok \in BOOLEAN : RunList(t, ok)
    BY <1>2, <1>3, <2>2 DEF RunList
  <2>3. CASE RunNext(t)
    BY <1>2, <1>3, <2>3 DEF RunNext
  <2>4. CASE Ack(t)
    BY <1>2, <1>3, <2>4 DEF Ack
  <2>5. CASE \E ok \in BOOLEAN : FetchUser(t, ok) \/ FetchBooking(t, ok)
    <3>1. PICK l \in {"catch", "record", "booking"} : task' = [task EXCEPT ![t].at = l]
      BY <2>5 DEF FetchUser, FetchBooking, Goto
    <3> QED BY <1>2, <1>4, <3>1
  <2>6. ASSUME NEW x \in Legs, NEW ok \in BOOLEAN, RunCheck(t, x, ok)
        PROVE  task'[t].at \notin {"mail", "save", "end"}
    <3> DEFINE rest == task[t].todo \ {x}
               g == [task[t] EXCEPT !.todo = rest]
               h == [Handle(t, x) EXCEPT !.todo = rest]
    <3>1. g.at = "check"
      BY <1>2, <2>6 DEF Handling, RunCheck, At
    <3>2. h.at = "user"
      BY <1>2 DEF Handling, Handle
    <3>3. \/ task' = [task EXCEPT ![t] = Idle] \/ task' = [task EXCEPT ![t] = g]
          \/ task' = [task EXCEPT ![t] = h]
      BY <2>6 DEF RunCheck
    <3> HIDE DEF g, h
    <3>4. task'[t] = Idle \/ task'[t] = g \/ task'[t] = h
      BY <1>2, <3>3
    <3> QED BY <1>3, <3>1, <3>2, <3>4
  <2> QED BY <2>1, <2>2, <2>3, <2>4, <2>5, <2>6
<1> QED BY <1>1, <1>5, <1>6, SafeQuietMove

(* What a row appended to the table is, and that the others stay. *)
LEMMA RowAppended ==
    ASSUME TypeInv, NEW r \in Row, rows' = Append(rows, r)
    PROVE  /\ Len(rows) \in Nat /\ Len(rows') = Len(rows) + 1
           /\ DOMAIN rows = 1 .. Len(rows) /\ DOMAIN rows' = 1 .. Len(rows')
           /\ \A i \in 1 .. Len(rows) : i \in 1 .. Len(rows') /\ rows'[i] = rows[i]
           /\ rows'[Len(rows')] = r
<1>1. rows \in Seq(Row)
  BY DEF TypeInv, NotificationsTypeOK, Row
<1> QED BY <1>1

LEMMA SafeCreate ==
    ASSUME TypeInv, TypeInv', SafeInv, NEW t \in Tasks, NEW ok \in BOOLEAN, CreateRecord(t, ok)
    PROVE  SafeInv'
<1>1. CASE ~ok
  <2>1. task' = [task EXCEPT ![t].at = "catch"] /\ UNCHANGED <<acked, store>>
    BY <1>1 DEF CreateRecord, Goto, store, broker
  <2>2. "catch" \in HandlerSteps
    BY DEF HandlerSteps
  <2>3. task'[t].at = "catch" /\ \A u \in Tasks : u # t => task'[u] = task[u]
    BY <2>1, <2>2, GoingAt
  <2> QED BY <2>1, <2>3, SafeQuietMove
<1>2. CASE ok
  <2> DEFINE r == [topic |-> Topic(t), status |-> "PENDING"]
  <2>1. /\ rows' = Append(rows, r) /\ UNCHANGED <<acked, mails, muted, silent>>
        /\ task' = [task EXCEPT ![t].at = "mail", ![t].row = Len(rows) + 1]
    BY <1>2 DEF CreateRecord, broker
  <2>2. Topic(t) \in Topics
    BY DEF TypeInv, NotificationsTypeOK, CreateRecord, At
  <2>3. r \in Row
    BY <2>2 DEF Row
  <2>4. /\ Len(rows) \in Nat /\ Len(rows') = Len(rows) + 1
        /\ DOMAIN rows = 1 .. Len(rows) /\ DOMAIN rows' = 1 .. Len(rows')
        /\ \A i \in 1 .. Len(rows) : i \in 1 .. Len(rows') /\ rows'[i] = rows[i]
        /\ rows'[Len(rows')] = r
    <3> HIDE DEF r
    <3> QED BY <2>1, <2>3, RowAppended
  <2>5. /\ \A u \in Tasks : u # t => task'[u] = task[u]
        /\ task'[t].at = "mail" /\ task'[t].topic = task[t].topic
        /\ task'[t].row = Len(rows) + 1
    <3>1. PICK n \in Nat : n = Len(rows) + 1
      BY <2>4
    <3>2. "mail" \in HandlerSteps /\ task' = [task EXCEPT ![t].at = "mail", ![t].row = n]
      BY <2>1, <3>1 DEF HandlerSteps
    <3> HIDE DEF r
    <3>3. /\ \A u \in Tasks : u # t => task'[u] = task[u]
          /\ task'[t].at = "mail" /\ task'[t].topic = task[t].topic /\ task'[t].row = n
      BY <3>2 DEF TypeInv, NotificationsTypeOK
    <3> QED BY <3>1, <3>3
  <2>6. Keeps
    BY <2>1, <2>4 DEF Keeps
  <2>7. \A u \in Tasks : Writes(u) => task[u].row \in 1 .. Len(rows)
    BY DEF TypeInv, NotificationsTypeOK, Writes
  <2>8. \A u \in Tasks : u # t /\ Writes(u)' => Writes(u) /\ Topic(u)' = Topic(u)
                          /\ task'[u].row \in 1 .. Len(rows)
    BY <2>5, <2>7 DEF Writes, At, Topic
  <2>9. RowsOwned'
    <3>1. rows'[task'[t].row].topic = Topic(t)' /\ rows'[task'[t].row].status = "PENDING"
      BY <2>4, <2>5 DEF Topic
    <3>2. ASSUME NEW u \in Tasks, u # t, Writes(u)'
          PROVE  /\ rows'[task'[u].row].topic = Topic(u)'
                 /\ rows'[task'[u].row].status = "PENDING"
                 /\ task'[u].row # task'[t].row
      <4>1. task'[u] = task[u] /\ task[u].row \in 1 .. Len(rows) /\ Topic(u)' = Topic(u)
        BY <2>5, <2>8, <3>2
      <4>2. rows[task[u].row].topic = Topic(u) /\ rows[task[u].row].status = "PENDING"
        BY <2>8, <3>2 DEF SafeInv, RowsOwned
      <4> QED BY <2>4, <2>5, <4>1, <4>2
    <3>3. ASSUME NEW u \in Tasks, NEW v \in Tasks, u # t, v # t, u # v, Writes(u)', Writes(v)'
          PROVE  task'[u].row # task'[v].row
      BY <2>5, <2>8, <3>3 DEF SafeInv, RowsOwned
    <3> QED BY <3>1, <3>2, <3>3 DEF RowsOwned
  <2>10. VerdictIsTrue'
    <3>1. \A u \in Tasks : At(u, "save")' => At(u, "save") /\ task'[u] = task[u]
      BY <2>5 DEF At
    <3>2. UNCHANGED <<mails, muted>>
      BY <2>1
    <3> QED BY <3>1, <3>2 DEF SafeInv, VerdictIsTrue, Topic
  <2>11. SentRowIsTrue'
    <3> SUFFICES ASSUME NEW i \in 1 .. Len(rows'), rows'[i].status = "SENT"
          PROVE  mails[rows'[i].topic] > 0 \/ rows'[i].topic \in muted
      BY <2>1, <2>4 DEF SentRowIsTrue
    <3>1. i # Len(rows')
      BY <2>4
    <3>2. i \in 1 .. Len(rows) /\ rows'[i] = rows[i]
      BY <2>4, <3>1
    <3> QED BY <2>4, <3>2 DEF SafeInv, SentRowIsTrue
  <2>12. EndsAccounted' /\ AckedIsAccountedFor'
    <3>1. \A e \in Events : At(e, "end")' => At(e, "end")
      BY <2>5 DEF At, Tasks
    <3> QED BY <2>1, <2>6, <3>1, EndsStay
  <2> QED BY <2>9, <2>10, <2>11, <2>12 DEF SafeInv
<1> QED BY <1>1, <1>2

LEMMA SafeSend ==
    ASSUME TypeInv, TypeInv', SafeInv, NEW t \in Tasks, NEW ok \in BOOLEAN, SendMail(t, ok)
    PROVE  SafeInv'
<1>1. Topic(t) \in Topics /\ mails \in [Topics -> Nat] /\ At(t, "mail")
  BY DEF TypeInv, NotificationsTypeOK, SendMail, At
<1>2. UNCHANGED <<acked, rows, silent>>
  BY DEF SendMail, broker
<1>3. /\ \A x \in Topics : mails[x] > 0 => mails'[x] > 0
      /\ muted \subseteq muted'
  BY <1>1 DEF SendMail
<1>4. Keeps
  BY <1>2, <1>3 DEF Keeps, TypeInv, NotificationsTypeOK
<1> DEFINE v == IF ok \/ ~smtp THEN "SENT" ELSE "FAILED"
<1>5. /\ v \in {"SENT", "FAILED"} /\ task' = [task EXCEPT ![t].at = "save", ![t].verdict = v]
      /\ v = "SENT" => mails'[Topic(t)] > 0 \/ Topic(t) \in muted'
  BY <1>1 DEF SendMail
<1>6. /\ \A u \in Tasks : u # t => task'[u] = task[u]
      /\ task'[t].at = "save" /\ task'[t].topic = task[t].topic
      /\ task'[t].row = task[t].row /\ task'[t].verdict = v
  <2>1. "save" \in HandlerSteps
    BY DEF HandlerSteps
  <2> HIDE DEF v
  <2> QED BY <1>5, <2>1, GoingVerdict
<1>7. \A u \in Tasks : Writes(u)' => /\ Writes(u) /\ Topic(u)' = Topic(u)
                                     /\ task'[u].row = task[u].row
  BY <1>1, <1>6 DEF Writes, At, Topic
<1>8. RowsOwned'
  BY <1>2, <1>7 DEF SafeInv, RowsOwned
<1>9. VerdictIsTrue'
  <2>1. \/ task'[t].verdict = "FAILED"
        \/ task'[t].verdict = "SENT" /\ (mails'[Topic(t)'] > 0 \/ Topic(t)' \in muted')
    <3> HIDE DEF v
    <3> QED BY <1>5, <1>6 DEF Topic
  <2>2. ASSUME NEW u \in Tasks, u # t, At(u, "save")'
        PROVE  \/ task'[u].verdict = "FAILED"
               \/ task'[u].verdict = "SENT" /\ (mails'[Topic(u)'] > 0 \/ Topic(u)' \in muted')
    <3>1. task'[u] = task[u] /\ At(u, "save") /\ Topic(u)' = Topic(u) /\ Topic(u) \in Topics
      BY <1>6, <2>2 DEF At, Topic, TypeInv, NotificationsTypeOK
    <3> QED BY <1>3, <3>1 DEF SafeInv, VerdictIsTrue
  <2> QED BY <2>1, <2>2 DEF VerdictIsTrue
<1>10. SentRowIsTrue'
  <2>1. \A i \in DOMAIN rows : rows[i].topic \in Topics
    <3>1. rows \in Seq(Row)
      BY DEF TypeInv, NotificationsTypeOK, Row
    <3>2. \A i \in DOMAIN rows : rows[i] \in Row
      BY <3>1
    <3> QED BY <3>2 DEF Row
  <2> QED BY <1>2, <1>3, <2>1 DEF SafeInv, SentRowIsTrue
<1>11. EndsAccounted' /\ AckedIsAccountedFor'
  <2>1. \A e \in Events : At(e, "end")' => At(e, "end")
    BY <1>6 DEF At, Tasks
  <2> QED BY <1>2, <1>4, <2>1, EndsStay
<1> QED BY <1>8, <1>9, <1>10, <1>11 DEF SafeInv

LEMMA SafeSave ==
    ASSUME TypeInv, TypeInv', SafeInv, NEW t \in Tasks, NEW ok \in BOOLEAN, SaveRecord(t, ok)
    PROVE  SafeInv'
<1>1. CASE ~ok
  <2>1. task' = [task EXCEPT ![t].at = "catch"] /\ UNCHANGED <<acked, store>>
    BY <1>1 DEF SaveRecord, Goto, store, broker
  <2>2. "catch" \in HandlerSteps
    BY DEF HandlerSteps
  <2>3. task'[t].at = "catch" /\ \A u \in Tasks : u # t => task'[u] = task[u]
    BY <2>1, <2>2, GoingAt
  <2> QED BY <2>1, <2>3, SafeQuietMove
<1>2. CASE ok
  <2> DEFINE k == task[t].row
             v == task[t].verdict
  <2>1. /\ rows' = [rows EXCEPT ![k].status = v] /\ UNCHANGED <<acked, mails, muted, silent>>
        /\ task' = [task EXCEPT ![t].at = "end"] /\ At(t, "save") /\ Writes(t)
    BY <1>2 DEF SaveRecord, Goto, broker, Writes
  <2>2. /\ k \in 1 .. Len(rows) /\ v \in {"PENDING", "SENT", "FAILED"} /\ rows \in Seq(Row)
        /\ Topic(t) \in Topics
    BY <2>1 DEF TypeInv, NotificationsTypeOK, At, Row
  <2>3. rows[k].topic = Topic(t) /\ rows[k].status = "PENDING"
    BY <2>1 DEF SafeInv, RowsOwned
  <2>4. v = "FAILED" \/ (v = "SENT" /\ (mails[Topic(t)] > 0 \/ Topic(t) \in muted))
    BY <2>1 DEF SafeInv, VerdictIsTrue
  <2>5. /\ Len(rows') = Len(rows) /\ DOMAIN rows = 1 .. Len(rows) /\ DOMAIN rows' = 1 .. Len(rows')
        /\ \A j \in 1 .. Len(rows) : rows'[j].topic = rows[j].topic
        /\ \A j \in 1 .. Len(rows) : j # k => rows'[j] = rows[j]
        /\ rows'[k] = [topic |-> Topic(t), status |-> v]
    <3> HIDE DEF k, v
    <3>1. /\ rows' \in Seq(Row) /\ Len(rows') = Len(rows)
          /\ \A j \in 1 .. Len(rows) :
                /\ rows'[j].topic = rows[j].topic
                /\ rows'[j] = IF j = k THEN [topic |-> rows[k].topic, status |-> v] ELSE rows[j]
      BY <2>1, <2>2, RowsWritten
    <3> QED BY <2>2, <2>3, <3>1
  <2>6. /\ \A u \in Tasks : u # t => task'[u] = task[u]
        /\ task'[t].at = "end"
    <3>1. "end" \in HandlerSteps
      BY DEF HandlerSteps
    <3> QED BY <2>1, <3>1, GoingAt
  <2>7. Keeps
    BY <2>1, <2>3, <2>5 DEF Keeps
  <2>8. ASSUME NEW u \in Tasks, Writes(u)'
        PROVE  /\ u # t /\ Writes(u) /\ task'[u] = task[u] /\ Topic(u)' = Topic(u)
               /\ task[u].row \in 1 .. Len(rows) /\ rows'[task[u].row] = rows[task[u].row]
    <3>1. u # t /\ Writes(u) /\ task'[u] = task[u] /\ Topic(u)' = Topic(u)
      BY <2>6, <2>8 DEF Writes, At, Topic
    <3>2. task[u].row \in 1 .. Len(rows) /\ task[u].row # k
      BY <2>1, <3>1 DEF SafeInv, RowsOwned, TypeInv, NotificationsTypeOK, Writes
    <3> QED BY <2>5, <3>1, <3>2
  <2>9. RowsOwned'
    BY <2>8 DEF SafeInv, RowsOwned
  <2>10. VerdictIsTrue'
    BY <2>1, <2>6 DEF SafeInv, VerdictIsTrue, At, Topic
  <2>11. SentRowIsTrue'
    <3> SUFFICES ASSUME NEW i \in 1 .. Len(rows), rows'[i].status = "SENT"
          PROVE  mails[rows'[i].topic] > 0 \/ rows'[i].topic \in muted
      BY <2>1, <2>5 DEF SentRowIsTrue
    <3>1. CASE i = k
      BY <2>4, <2>5, <3>1
    <3>2. CASE i # k
      BY <2>5, <3>2 DEF SafeInv, SentRowIsTrue
    <3> QED BY <3>1, <3>2
  <2>12. EndsAccounted' /\ AckedIsAccountedFor'
    <3>1. t \in Events => Topic(t) = t
      BY <2>1 DEF TypeInv, OwnTopic, At
    <3>2. t \in Events => Accounted(t)'
      <4>1. k \in DOMAIN rows' /\ rows'[k] = [topic |-> Topic(t), status |-> v]
        BY <2>2, <2>5
      <4> HIDE DEF k, v
      <4> QED BY <2>1, <2>4, <3>1, <4>1 DEF Accounted
    <3>3. \A e \in Events : At(e, "end")' => At(e, "end") \/ Accounted(e)'
      BY <2>6, <3>2 DEF At, Tasks
    <3> QED BY <2>1, <2>7, <3>3, EndsStay
  <2> QED BY <2>9, <2>10, <2>11, <2>12 DEF SafeInv
<1> QED BY <1>1, <1>2

(* The catch: an event's failure gets a row, or is noted as not recorded.    *)
LEMMA SafeCatch ==
    ASSUME TypeInv, TypeInv', SafeInv, NEW t \in Tasks, NEW ok \in BOOLEAN, Catch(t, ok)
    PROVE  SafeInv'
<1>1. /\ UNCHANGED <<acked, mails, muted>> /\ Topic(t) \in Topics /\ At(t, "catch")
      /\ task' = [task EXCEPT ![t].at = "end"]
  BY DEF Catch, Goto, broker, TypeInv, NotificationsTypeOK, At
<1>2. /\ \A u \in Tasks : u # t => task'[u] = task[u]
      /\ task'[t].at = "end"
  <2>1. "end" \in HandlerSteps
    BY DEF HandlerSteps
  <2> QED BY <1>1, <2>1, GoingAt
<1>3. \A u \in Tasks : Writes(u)' => Writes(u) /\ task'[u] = task[u] /\ Topic(u)' = Topic(u)
                                   /\ task[u].row \in 1 .. Len(rows)
  BY <1>2 DEF Writes, At, Topic, TypeInv, NotificationsTypeOK
<1>4. t \in Events => Topic(t) = t
  BY <1>1 DEF TypeInv, OwnTopic, At
<1>5. /\ silent \subseteq silent'
      /\ \A i \in 1 .. Len(rows) : i \in 1 .. Len(rows') /\ rows'[i] = rows[i]
      /\ \A i \in DOMAIN rows' :
            rows'[i].status # "FAILED" => i \in DOMAIN rows /\ rows'[i] = rows[i]
      /\ t \in Events => Accounted(t)'
  <2>1. CASE ok /\ t \in Events
    <3> DEFINE r == [topic |-> Topic(t), status |-> "FAILED"]
    <3>1. rows' = Append(rows, r) /\ silent' = silent
      BY <2>1 DEF Catch
    <3>2. r \in Row /\ r.status = "FAILED"
      BY <1>1 DEF Row
    <3>3. /\ Len(rows) \in Nat /\ Len(rows') = Len(rows) + 1
          /\ DOMAIN rows = 1 .. Len(rows) /\ DOMAIN rows' = 1 .. Len(rows')
          /\ \A i \in 1 .. Len(rows) : i \in 1 .. Len(rows') /\ rows'[i] = rows[i]
          /\ rows'[Len(rows')] = r
      <4> HIDE DEF r
      <4> QED BY <3>1, <3>2, RowAppended
    <3>4. \A i \in DOMAIN rows' : i \in DOMAIN rows \/ i = Len(rows')
      BY <3>3
    <3>5. Len(rows') \in DOMAIN rows' /\ rows'[Len(rows')] = [topic |-> t, status |-> "FAILED"]
      BY <1>4, <2>1, <3>3
    <3>6. Accounted(t)'
      BY <3>5 DEF Accounted
    <3> HIDE DEF r
    <3> QED BY <3>1, <3>2, <3>3, <3>4, <3>6
  <2>2. CASE ~(ok /\ t \in Events)
    <3>1. rows' = rows /\ silent' = silent \cup {Topic(t)}
      BY <2>2 DEF Catch
    <3>2. t \in Events => Accounted(t)'
      BY <1>4, <3>1 DEF Accounted
    <3> QED BY <3>1, <3>2
  <2> QED BY <2>1, <2>2
<1>6. Keeps
  BY <1>1, <1>5 DEF Keeps
<1>7. RowsOwned'
  BY <1>3, <1>5 DEF SafeInv, RowsOwned
<1>8. VerdictIsTrue'
  <2>1. \A u \in Tasks : At(u, "save")' => At(u, "save") /\ task'[u] = task[u]
    BY <1>2 DEF At
  <2> QED BY <1>1, <2>1 DEF SafeInv, VerdictIsTrue, Topic
<1>9. SentRowIsTrue'
  <2> SUFFICES ASSUME NEW i \in DOMAIN rows', rows'[i].status = "SENT"
        PROVE  mails[rows'[i].topic] > 0 \/ rows'[i].topic \in muted
    BY <1>1 DEF SentRowIsTrue
  <2>1. i \in DOMAIN rows /\ rows'[i] = rows[i]
    BY <1>5
  <2> QED BY <2>1 DEF SafeInv, SentRowIsTrue
<1>10. EndsAccounted' /\ AckedIsAccountedFor'
  <2>1. \A e \in Events : At(e, "end")' => At(e, "end") \/ Accounted(e)'
    BY <1>2, <1>5 DEF At, Tasks
  <2> QED BY <1>1, <1>6, <2>1, EndsStay
<1> QED BY <1>7, <1>8, <1>9, <1>10 DEF SafeInv

LEMMA SafeStep == ASSUME TypeInv, TypeInv', SafeInv, [NotificationsNext]_notificationVars PROVE SafeInv'
<1>1. ASSUME NEW t \in Tasks, Work(t) PROVE SafeInv'
  <2>1. ASSUME NEW ok \in BOOLEAN, HandleStep(t, ok) PROVE SafeInv'
    BY <2>1, SafeJob, SafeCreate, SafeSend, SafeSave, SafeCatch DEF HandleStep
  <2> QED BY <1>1, <2>1, SafeJob DEF Work
<1>2. ASSUME NEW w \in Runs, RunStart(w) PROVE SafeInv'
  <2>1. w \in Tasks
    BY DEF Tasks
  <2> QED BY <1>2, <2>1, SafeJob
<1>3. CASE UNCHANGED notificationVars
  BY <1>3, SafeAround
<1> QED BY <1>1, <1>2, <1>3, SafeAround DEF NotificationsNext

LEMMA SafeAlways == NotificationsSpec => [](TypeInv /\ SafeInv)
<1>1. NotificationsInit => TypeInv /\ SafeInv
  BY TypeInit, SafeInit
<1>2. TypeInv /\ SafeInv /\ [NotificationsNext]_notificationVars => (TypeInv /\ SafeInv)'
  BY TypeStep, SafeStep
<1> QED BY <1>1, <1>2, PTL DEF NotificationsSpec

(* An event that was acknowledged was mailed or left a row that says it      *)
(* failed, unless Resend or the database refused: whatever the number of     *)
(* events, handlers, crashes and redeliveries.                               *)
THEOREM AckedAccounted == NotificationsSpec => []AckedIsAccountedFor
<1>1. TypeInv /\ SafeInv => AckedIsAccountedFor
  BY DEF SafeInv
<1> QED BY <1>1, SafeAlways, PTL

(* A row that says SENT stands for a mail that was accepted, or that Resend  *)
(* refused unnoticed: no handler writes the row of another.                  *)
THEOREM SentTrue == NotificationsSpec => []SentRowIsTrue
<1>1. TypeInv /\ SafeInv => SentRowIsTrue
  BY DEF SafeInv
<1> QED BY <1>1, SafeAlways, PTL

(* What the records say of mails is so. *)
COROLLARY RecordsTrue == NotificationsSpec => []RecordsAreTrue
<1>1. AckedIsAccountedFor /\ SentRowIsTrue => RecordsAreTrue
  BY DEF RecordsAreTrue
<1> QED BY <1>1, AckedAccounted, SentTrue, PTL

-------------------------------------------------------------------------------
(***************************************************************************)
(* Mails that neither a fault nor an overlap explains do not exist.  For   *)
(* an event: while it may still be mailed, its mails are at most the       *)
(* faults, and only one handler has it.  For a departure x the mails that  *)
(* may still come are counted with those that did: before x has a SENT     *)
(* row, one for each active run that has not passed x (Willing); after it, *)
(* one for each run that had looked before the row was there (Bound).  The *)
(* first run of a time without runs brings one mail that no overlap pays   *)
(* for; it is spent while somebody is Willing or has mailed x and not yet  *)
(* saved the row (Holding), and a fault pays for it otherwise.             *)
(***************************************************************************)
BeforeMail == {"user", "booking", "record", "mail"}
Handlings == BeforeMail \cup {"save", "catch", "end"}

WillMail(t, x) == task[t].at \in BeforeMail /\ Topic(t) = x
MayMail(w, x) ==
    \/ At(w, "list")
    \/ ~At(w, "idle") /\ x \in task[w].todo
    \/ WillMail(w, x)
Holds(w, x) == At(w, "save") /\ Topic(w) = x /\ task[w].verdict = "SENT"

Bound(x) == {w \in Runs : WillMail(w, x)}
Willing(x) == {w \in Runs : MayMail(w, x)}
Holding(x) == {w \in Runs : Holds(w, x)}
Active == {w \in Runs : ~At(w, "idle")}

\* A leg that a run handles is no longer on its list.
TodoIsRest ==
    \A w \in Runs : task[w].at \in Handlings => Topic(w) \in Legs \ task[w].todo

EventMails ==
    \A e \in Events :
        /\ e \in unsent => e \notin queued /\ At(e, "idle")
        /\ e \in queued => At(e, "idle")
        /\ mails[e] <= 1 + faults
        /\ e \in unsent \cup queued \/ WillMail(e, e) => mails[e] <= faults

LegMails(x) ==
    /\ Reminded(x) => mails[x] + Cardinality(Bound(x)) <= 1 + faults + overlaps
    /\ ~Reminded(x) =>
          /\ mails[x] + Cardinality(Willing(x)) <= 1 + faults + overlaps
          /\ Willing(x) \cup Holding(x) = {} => mails[x] <= faults + overlaps

SpareInv == TodoIsRest /\ EventMails /\ \A x \in Legs : LegMails(x)

LEMMA SpareTypes ==
    ASSUME TypeInv
    PROVE  /\ faults \in Nat /\ overlaps \in Nat /\ mails \in [Topics -> Nat]
           /\ task \in [Tasks -> Handling] /\ Runs \subseteq Tasks /\ Events \subseteq Tasks
           /\ Legs \subseteq Topics /\ Events \subseteq Topics
           /\ Events \cap Runs = {} /\ Events \cap Legs = {}
BY NotificationsAssumption DEF TypeInv, NotificationsTypeOK, Handling, Tasks, Topics

(* The sets of runs are finite, and who is bound to mail is willing. *)
LEMMA RunsCounted ==
    ASSUME NEW x
    PROVE  /\ IsFiniteSet(Bound(x)) /\ IsFiniteSet(Willing(x))
           /\ Cardinality(Bound(x)) \in Nat /\ Cardinality(Willing(x)) \in Nat
           /\ Bound(x) \subseteq Willing(x)
           /\ Cardinality(Bound(x)) <= Cardinality(Willing(x))
<1>1. IsFiniteSet(Runs) /\ Bound(x) \subseteq Willing(x) /\ Willing(x) \subseteq Runs
  BY NotificationsAssumption DEF Bound, Willing, MayMail
<1>2. IsFiniteSet(Willing(x)) /\ IsFiniteSet(Bound(x))
  BY <1>1, FS_Subset
<1> QED
  BY <1>1, <1>2, FS_Subset, FS_CardinalityType

(* The same of the next state: the sets it names are those of that state. *)
LEMMA RunsCountedNext ==
    ASSUME NEW x
    PROVE  /\ IsFiniteSet(Bound(x)') /\ IsFiniteSet(Willing(x)')
           /\ Cardinality(Bound(x)') \in Nat /\ Cardinality(Willing(x)') \in Nat
           /\ Bound(x)' \subseteq Willing(x)'
           /\ Cardinality(Bound(x)') <= Cardinality(Willing(x)')
<1>1. IsFiniteSet(Runs) /\ Bound(x)' \subseteq Willing(x)' /\ Willing(x)' \subseteq Runs
  BY NotificationsAssumption DEF Bound, Willing, MayMail
<1>2. IsFiniteSet(Willing(x)') /\ IsFiniteSet(Bound(x)')
  BY <1>1, FS_Subset
<1> QED
  BY <1>1, <1>2, FS_Subset, FS_CardinalityType

(* A step that mails nothing about x and makes no run willing: a run that   *)
(* held the mail of x leaves a SENT row behind, or a fault.                 *)
LEMMA LegStays ==
    ASSUME TypeInv, TypeInv', NEW x \in Legs, LegMails(x),
           \A w \in Runs : MayMail(w, x)' => MayMail(w, x),
           Reminded(x) => Reminded(x)' /\ \A w \in Runs : WillMail(w, x)' => WillMail(w, x),
           ~Reminded(x)' =>
               \/ faults' > faults
               \/ \A w \in Runs : Holds(w, x) => Holds(w, x)',
           mails'[x] = mails[x], overlaps' >= overlaps, faults' >= faults
    PROVE  LegMails(x)'
<1> DEFINE W == Willing(x)  Wn == Willing(x)'  B == Bound(x)  Bn == Bound(x)'
<1>1. /\ IsFiniteSet(W) /\ IsFiniteSet(B) /\ IsFiniteSet(Wn) /\ IsFiniteSet(Bn)
      /\ Cardinality(W) \in Nat /\ Cardinality(Wn) \in Nat
      /\ Cardinality(B) \in Nat /\ Cardinality(Bn) \in Nat
      /\ Cardinality(Bn) <= Cardinality(Wn)
  BY RunsCounted, RunsCountedNext
<1>2. /\ faults \in Nat /\ faults' \in Nat /\ overlaps \in Nat /\ overlaps' \in Nat
      /\ mails[x] \in Nat /\ mails'[x] \in Nat
  BY SpareTypes DEF TypeInv, NotificationsTypeOK
<1>3. Wn \subseteq W /\ Cardinality(Wn) <= Cardinality(W)
  <2>1. Wn \subseteq W
    BY DEF Willing
  <2> QED
    BY <1>1, <2>1, FS_Subset
<1>4. Reminded(x) => Cardinality(Bn) <= Cardinality(B)
  <2>1. Reminded(x) => Bn \subseteq B
    BY DEF Bound
  <2> QED
    BY <1>1, <2>1, FS_Subset
<1>5. Reminded(x)' => mails'[x] + Cardinality(Bn) <= 1 + faults' + overlaps'
  <2>1. CASE Reminded(x)
    BY <1>1, <1>2, <1>4, <2>1 DEF LegMails
  <2>2. CASE ~Reminded(x)
    BY <1>1, <1>2, <1>3, <2>2 DEF LegMails
  <2> QED
    BY <2>1, <2>2
<1>6. ASSUME ~Reminded(x)'
      PROVE  mails'[x] + Cardinality(Wn) <= 1 + faults' + overlaps'
  BY <1>1, <1>2, <1>3, <1>6 DEF LegMails
<1>7. ASSUME ~Reminded(x)', Wn = {}, Holding(x)' = {}
      PROVE  mails'[x] <= faults' + overlaps'
  <2>1. ~Reminded(x)
    BY <1>7
  <2>2. CASE faults' > faults
    BY <1>1, <1>2, <2>1, <2>2 DEF LegMails
  <2>3. CASE W = {} /\ Holding(x) = {}
    BY <1>1, <1>2, <2>1, <2>3 DEF LegMails
  <2>4. CASE ~(faults' > faults) /\ ~(W = {} /\ Holding(x) = {})
    <3>1. Holding(x) = {}
      BY <1>7, <2>4 DEF Holding
    <3>2. W # {} /\ Cardinality(W) # 0
      BY <1>1, <2>4, <3>1, FS_EmptySet
    <3> QED
      BY <1>1, <1>2, <2>1, <3>2 DEF LegMails
  <2> QED
    BY <2>2, <2>3, <2>4
<1> QED
  BY <1>5, <1>6, <1>7 DEF LegMails

(* A run that mails x is no longer willing, and holds the mail. *)
LEMMA LegMailed ==
    ASSUME TypeInv, TypeInv', NEW x \in Legs, NEW t \in Runs, LegMails(x),
           WillMail(t, x), ~MayMail(t, x)', Holds(t, x)',
           \A w \in Runs : w # t => (MayMail(w, x)' <=> MayMail(w, x))
                                  /\ (WillMail(w, x)' <=> WillMail(w, x)),
           Reminded(x)' <=> Reminded(x),
           mails'[x] = mails[x] + 1, overlaps' = overlaps, faults' = faults
    PROVE  LegMails(x)'
<1> DEFINE W == Willing(x)  Wn == Willing(x)'  B == Bound(x)  Bn == Bound(x)'
<1>1. /\ IsFiniteSet(W) /\ IsFiniteSet(B)
      /\ Cardinality(W) \in Nat /\ Cardinality(B) \in Nat
  BY RunsCounted
<1>2. faults \in Nat /\ overlaps \in Nat /\ mails[x] \in Nat
  BY SpareTypes
<1>3. t \in W /\ t \in B /\ Wn = W \ {t} /\ Bn = B \ {t}
  BY DEF Willing, Bound, MayMail
<1>4. Cardinality(Wn) = Cardinality(W) - 1 /\ Cardinality(Bn) = Cardinality(B) - 1
  BY <1>1, <1>3, FS_RemoveElement
<1>5. Holding(x)' # {}
  BY DEF Holding
<1> HIDE DEF W, Wn, B, Bn
<1> QED
  BY <1>1, <1>2, <1>4, <1>5 DEF LegMails, W, Wn, B, Bn

(* A run that starts is willing; unless it is alone, an overlap is counted. *)
LEMMA LegStarted ==
    ASSUME TypeInv, TypeInv', NEW x \in Legs, NEW t \in Runs, LegMails(x),
           \A w \in Runs : w # t => (MayMail(w, x)' <=> MayMail(w, x)),
           \A w \in Runs : WillMail(w, x)' => WillMail(w, x),
           MayMail(t, x)', Reminded(x)' <=> Reminded(x),
           mails'[x] = mails[x], faults' = faults,
           \/ overlaps' = overlaps + 1
           \/ overlaps' = overlaps /\ Active = {}
    PROVE  LegMails(x)'
<1> DEFINE W == Willing(x)  Wn == Willing(x)'  B == Bound(x)  Bn == Bound(x)'
<1>1. /\ IsFiniteSet(W) /\ IsFiniteSet(B) /\ IsFiniteSet(Wn) /\ IsFiniteSet(Bn)
      /\ Cardinality(W) \in Nat /\ Cardinality(B) \in Nat
      /\ Cardinality(Wn) \in Nat /\ Cardinality(Bn) \in Nat
  BY RunsCounted, RunsCountedNext
<1>2. faults \in Nat /\ overlaps \in Nat /\ mails[x] \in Nat
  BY SpareTypes
<1>3. t \in Wn /\ Wn = W \cup {t} /\ Bn \subseteq B
  BY DEF Willing, Bound
<1>4. Cardinality(Wn) <= Cardinality(W) + 1 /\ Cardinality(Bn) <= Cardinality(B)
  <2>1. Cardinality(Wn) \in {Cardinality(W), Cardinality(W) + 1}
    BY <1>1, <1>3, FS_AddElement
  <2>2. Cardinality(Bn) <= Cardinality(B)
    BY <1>1, <1>3, FS_Subset
  <2> QED
    BY <1>1, <2>1, <2>2
<1>5. CASE overlaps' = overlaps + 1
  BY <1>1, <1>2, <1>3, <1>4, <1>5 DEF LegMails
<1>6. CASE overlaps' = overlaps /\ Active = {}
  <2>1. W = {} /\ Holding(x) = {}
    BY <1>6 DEF Active, Willing, Holding, MayMail, WillMail, Holds, At, BeforeMail
  <2>2. Cardinality(W) = 0
    BY <2>1, FS_EmptySet
  <2>3. /\ ~Reminded(x)' => mails'[x] + Cardinality(Wn) <= 1 + faults' + overlaps'
        /\ Reminded(x)' => mails'[x] + Cardinality(Bn) <= 1 + faults' + overlaps'
    BY <1>1, <1>2, <1>4, <1>6, <2>1, <2>2 DEF LegMails
  <2> QED
    BY <1>3, <2>3 DEF LegMails
<1> QED
  BY <1>5, <1>6

(* A step of handleEvent: the topic and the rest of the list stay. *)
LEMMA HandleMoves ==
    ASSUME TypeInv, NEW t \in Tasks, NEW ok \in BOOLEAN, HandleStep(t, ok)
    PROVE  /\ \A u \in Tasks : u # t => task'[u] = task[u]
           /\ task'[t].topic = task[t].topic /\ task'[t].todo = task[t].todo
           /\ task[t].at \in Handlings \ {"end"} /\ task'[t].at \in Handlings
           /\ task'[t].at \in BeforeMail => task[t].at \in BeforeMail /\ ~SendMail(t, ok)
           /\ UNCHANGED <<broker, setup, service, job>>
           /\ faults' \in Nat /\ faults' >= faults /\ (~ok => faults' = faults + 1)
<1>1. task \in [Tasks -> Handling] /\ task[t] \in Handling /\ faults \in Nat
  BY SpareTypes
<1>2. Outcome(ok) /\ UNCHANGED <<broker, setup, service, job>>
  BY DEF HandleStep, FetchUser, FetchBooking, CreateRecord, SendMail, SaveRecord, Catch
<1>3. faults' \in Nat /\ faults' >= faults /\ (~ok => faults' = faults + 1)
  BY <1>1, <1>2 DEF Outcome, Fault
<1>4. ASSUME NEW l \in Handlings, task' = [task EXCEPT ![t].at = l]
      PROVE  /\ \A u \in Tasks : u # t => task'[u] = task[u]
             /\ task'[t].topic = task[t].topic /\ task'[t].todo = task[t].todo
             /\ task'[t].at = l
  BY <1>1, <1>4 DEF Handling
<1>5. CASE FetchUser(t, ok) \/ FetchBooking(t, ok)
  <2>1. PICK l \in {"record", "booking", "catch"} : task' = [task EXCEPT ![t].at = l]
    BY <1>5 DEF FetchUser, FetchBooking, Goto
  <2>2. l \in Handlings
    BY DEF Handlings, BeforeMail
  <2>3. task[t].at \in BeforeMail /\ ~At(t, "mail")
    BY <1>5 DEF FetchUser, FetchBooking, At, BeforeMail
  <2> QED
    BY <1>2, <1>3, <1>4, <2>1, <2>2, <2>3 DEF Handlings, BeforeMail, SendMail
<1>6. CASE CreateRecord(t, ok)
  <2>1. task[t].at = "record" /\ ~SendMail(t, ok)
    BY <1>6 DEF CreateRecord, SendMail, At
  <2>2. CASE ~ok
    BY <1>2, <1>3, <1>4, <1>6, <2>1, <2>2 DEF CreateRecord, Goto, Handlings, BeforeMail
  <2>3. CASE ok
    <3>1. /\ \A u \in Tasks : u # t => task'[u] = task[u]
          /\ task'[t].topic = task[t].topic /\ task'[t].todo = task[t].todo
          /\ task'[t].at = "mail"
      BY <1>1, <1>6, <2>3 DEF CreateRecord, Handling
    <3> QED
      BY <1>2, <1>3, <2>1, <3>1 DEF Handlings, BeforeMail
  <2> QED
    BY <2>2, <2>3
<1>7. CASE SendMail(t, ok)
  <2>1. /\ \A u \in Tasks : u # t => task'[u] = task[u]
        /\ task'[t].topic = task[t].topic /\ task'[t].todo = task[t].todo
        /\ task'[t].at = "save" /\ task[t].at = "mail"
    BY <1>1, <1>7 DEF SendMail, Handling, At
  <2> QED
    BY <1>2, <1>3, <2>1 DEF Handlings, BeforeMail
<1>8. CASE SaveRecord(t, ok) \/ Catch(t, ok)
  <2>1. PICK l \in {"catch", "end"} : task' = [task EXCEPT ![t].at = l]
    BY <1>8 DEF SaveRecord, Catch, Goto
  <2>2. task[t].at \in {"save", "catch"} /\ l \in Handlings
    BY <1>8 DEF SaveRecord, Catch, At, Handlings
  <2> QED
    BY <1>2, <1>3, <1>4, <2>1, <2>2 DEF Handlings, BeforeMail
<1> QED
  BY <1>5, <1>6, <1>7, <1>8 DEF HandleStep

(* A SENT row stays, and saving one reminds. *)
LEMMA RemindedStays ==
    ASSUME TypeInv, SafeInv, NEW t \in Tasks, NEW ok \in BOOLEAN, HandleStep(t, ok)
    PROVE  /\ \A x \in Topics : Reminded(x) => Reminded(x)'
           /\ \A x \in Topics :
                 SaveRecord(t, ok) /\ ok /\ Holds(t, x) => Reminded(x)'
           /\ SendMail(t, ok) => \A x \in Topics : Reminded(x)' <=> Reminded(x)
<1>1. rows \in Seq(Row) /\ Len(rows) \in Nat /\ DOMAIN rows = 1 .. Len(rows)
  BY DEF TypeInv, NotificationsTypeOK, Row
<1>2. CASE rows' = rows /\ ~(SaveRecord(t, ok) /\ ok)
  BY <1>2 DEF Reminded
<1>3. ASSUME NEW r \in Row, rows' = Append(rows, r), ~SaveRecord(t, ok), ~SendMail(t, ok)
      PROVE  \A x \in Topics : Reminded(x) => Reminded(x)'
  <2>1. \A i \in DOMAIN rows : i \in DOMAIN rows' /\ rows'[i] = rows[i]
    BY <1>1, <1>3, RowAppended
  <2> QED
    BY <2>1 DEF Reminded
<1>4. CASE SaveRecord(t, ok) /\ ok
  <2> DEFINE k == task[t].row  v == task[t].verdict
  <2>1. /\ k \in 1 .. Len(rows) /\ v \in {"PENDING", "SENT", "FAILED"}
        /\ rows[k].topic = Topic(t) /\ rows[k].status = "PENDING"
        /\ rows' = [rows EXCEPT ![k].status = v]
    BY <1>4 DEF SaveRecord, TypeInv, NotificationsTypeOK, SafeInv, RowsOwned, Writes
  <2>2. /\ Len(rows') = Len(rows) /\ DOMAIN rows' = 1 .. Len(rows')
        /\ \A j \in 1 .. Len(rows) : j # k => rows'[j] = rows[j]
        /\ rows'[k] = [topic |-> rows[k].topic, status |-> v]
    <3> HIDE DEF k, v
    <3>1. /\ rows' \in Seq(Row) /\ Len(rows') = Len(rows)
          /\ \A j \in 1 .. Len(rows) :
                /\ rows'[j].topic = rows[j].topic
                /\ rows'[j] = IF j = k THEN [topic |-> rows[k].topic, status |-> v] ELSE rows[j]
      BY <1>1, <2>1, RowsWritten, ZenonT(60)
    <3> QED
      BY <2>1, <3>1
  <2> HIDE DEF k
  <2>3. \A i \in DOMAIN rows : rows[i].status = "SENT" => i \in DOMAIN rows' /\ rows'[i] = rows[i]
    BY <1>1, <2>1, <2>2
  <2>4. ASSUME NEW x \in Topics, Holds(t, x) PROVE Reminded(x)'
    <3>1. k \in DOMAIN rows' /\ rows'[k].topic = x /\ rows'[k].status = "SENT"
      BY <2>1, <2>2, <2>4 DEF Holds
    <3> QED
      BY <3>1 DEF Reminded
  <2>5. ~SendMail(t, ok)
    BY <1>4 DEF SaveRecord, SendMail, At
  <2> QED
    BY <2>3, <2>4, <2>5 DEF Reminded
<1>5. CASE CreateRecord(t, ok) \/ Catch(t, ok)
  <2>1. Topic(t) \in Topics /\ ~SaveRecord(t, ok) /\ ~SendMail(t, ok)
    BY <1>5 DEF CreateRecord, Catch, SaveRecord, SendMail, At, TypeInv, NotificationsTypeOK
  <2>2. \/ rows' = rows
        \/ rows' = Append(rows, [topic |-> Topic(t), status |-> "PENDING"])
        \/ rows' = Append(rows, [topic |-> Topic(t), status |-> "FAILED"])
    BY <1>5 DEF CreateRecord, Catch
  <2>3. \A st \in {"PENDING", "FAILED"} : [topic |-> Topic(t), status |-> st] \in Row
    BY <2>1 DEF Row
  <2> QED
    BY <1>2, <1>3, <2>1, <2>2, <2>3
<1>6. CASE FetchUser(t, ok) \/ FetchBooking(t, ok) \/ SendMail(t, ok)
  <2>1. rows' = rows /\ ~(SaveRecord(t, ok) /\ ok)
    BY <1>6 DEF FetchUser, FetchBooking, SendMail, SaveRecord, At, store
  <2> QED
    BY <1>2, <2>1
<1>7. CASE SaveRecord(t, ok) /\ ~ok
  BY <1>2, <1>7 DEF SaveRecord
<1> QED
  BY <1>4, <1>5, <1>6, <1>7 DEF HandleStep

LEMMA SpareHandle ==
    ASSUME TypeInv, TypeInv', SafeInv, SpareInv,
           NEW t \in Tasks, NEW ok \in BOOLEAN, HandleStep(t, ok)
    PROVE  SpareInv'
<1> USE SpareTypes
<1>1. /\ \A u \in Tasks : u # t => task'[u] = task[u]
      /\ task'[t].topic = task[t].topic /\ task'[t].todo = task[t].todo
      /\ task[t].at \in Handlings \ {"end"} /\ task'[t].at \in Handlings
      /\ task'[t].at \in BeforeMail => task[t].at \in BeforeMail /\ ~SendMail(t, ok)
      /\ UNCHANGED <<unsent, queued, overlaps>>
      /\ faults' \in Nat /\ faults' >= faults /\ (~ok => faults' = faults + 1)
  BY HandleMoves DEF broker, job
<1>2. TodoIsRest'
  BY <1>1 DEF SpareInv, TodoIsRest, Topic, Handlings
<1>3. \A u \in Tasks, x \in Topics : WillMail(u, x)' => WillMail(u, x)
  BY <1>1 DEF WillMail, Topic
<1>4. \/ mails' = mails
      \/ /\ SendMail(t, ok) /\ ok /\ At(t, "mail") /\ Topic(t) \in Topics
         /\ mails' = [mails EXCEPT ![Topic(t)] = mails[Topic(t)] + 1]
         /\ task'[t].verdict = "SENT" /\ task'[t].at = "save" /\ faults' = faults
  <2>1. ASSUME SendMail(t, ok), ok PROVE
          /\ At(t, "mail") /\ Topic(t) \in Topics
          /\ mails' = [mails EXCEPT ![Topic(t)] = mails[Topic(t)] + 1]
          /\ task'[t].verdict = "SENT" /\ task'[t].at = "save" /\ faults' = faults
    BY <2>1 DEF SendMail, At, TypeInv, NotificationsTypeOK, Outcome, Handling
  <2>2. ~(SendMail(t, ok) /\ ok) => mails' = mails
    BY DEF HandleStep, FetchUser, FetchBooking, CreateRecord, SendMail, SaveRecord, Catch, store
  <2> QED
    BY <2>1, <2>2
<1>5. EventMails'
  <2> SUFFICES ASSUME NEW e \in Events PROVE
        /\ e \in unsent => e \notin queued /\ At(e, "idle")'
        /\ e \in queued => At(e, "idle")'
        /\ mails'[e] <= 1 + faults'
        /\ e \in unsent \cup queued \/ WillMail(e, e)' => mails'[e] <= faults'
    BY <1>1 DEF EventMails
  <2>1. /\ e \in unsent => e \notin queued /\ At(e, "idle")
        /\ e \in queued => At(e, "idle")
        /\ mails[e] <= 1 + faults /\ mails[e] \in Nat
        /\ e \in unsent \cup queued \/ WillMail(e, e) => mails[e] <= faults
    BY DEF SpareInv, EventMails
  <2>2. At(e, "idle") => At(e, "idle")'
    BY <1>1 DEF At, Handlings, BeforeMail
  <2>3. CASE mails'[e] = mails[e]
    BY <1>1, <1>3, <2>1, <2>2, <2>3
  <2>4. CASE mails'[e] # mails[e]
    <3>1. /\ At(t, "mail") /\ Topic(t) = e /\ mails'[e] = mails[e] + 1
          /\ task'[t].at = "save" /\ faults' = faults
      BY <1>4, <2>4
    <3>2. t = e
      <4>1. t \notin Runs
        BY <3>1 DEF SpareInv, TodoIsRest, At, Handlings, BeforeMail
      <4> QED
        BY <3>1, <4>1 DEF Tasks, TypeInv, OwnTopic, At
    <3>3. WillMail(e, e) /\ ~WillMail(e, e)' /\ ~At(e, "idle")
      BY <3>1, <3>2 DEF WillMail, At, BeforeMail
    <3> QED
      BY <2>1, <3>1, <3>3
  <2> QED
    BY <2>3, <2>4
<1>6. ASSUME NEW x \in Legs PROVE LegMails(x)'
  <2>1. \A w \in Runs :
          w # t => /\ MayMail(w, x)' <=> MayMail(w, x)
                   /\ WillMail(w, x)' <=> WillMail(w, x)
                   /\ Holds(w, x)' <=> Holds(w, x)
    BY <1>1 DEF MayMail, WillMail, Holds, At, Topic
  <2>2. MayMail(t, x)' => MayMail(t, x)
    BY <1>1, <1>3 DEF MayMail, At, Handlings, BeforeMail
  <2>3. /\ Reminded(x) => Reminded(x)'
        /\ SaveRecord(t, ok) /\ ok /\ Holds(t, x) => Reminded(x)'
        /\ SendMail(t, ok) => (Reminded(x)' <=> Reminded(x))
    BY RemindedStays
  <2>4. LegMails(x)
    BY DEF SpareInv
  <2>5. CASE mails'[x] = mails[x]
    <3>1. ASSUME ~Reminded(x)', faults' = faults, NEW w \in Runs, Holds(w, x)
          PROVE  Holds(w, x)'
      <4>1. CASE w # t
        BY <2>1, <3>1, <4>1
      <4>2. CASE w = t
        <5>1. SaveRecord(t, ok)
          BY <3>1, <4>2 DEF Holds, HandleStep, At, FetchUser, FetchBooking, CreateRecord,
                            SendMail, Catch
        <5>2. ok
          BY <1>1, <3>1
        <5> QED
          BY <2>3, <3>1, <4>2, <5>1, <5>2
      <4> QED
        BY <4>1, <4>2
    <3>2. faults' > faults \/ faults' = faults
      BY <1>1
    <3>3. \A w \in Runs : MayMail(w, x)' => MayMail(w, x)
      BY <2>1, <2>2
    <3>4. \A w \in Runs : WillMail(w, x)' => WillMail(w, x)
      BY <1>3
    <3>5. overlaps' >= overlaps
      BY <1>1
    <3> QED
      BY <1>1, <2>3, <2>4, <2>5, <3>1, <3>2, <3>3, <3>4, <3>5, LegStays
  <2>6. CASE mails'[x] # mails[x]
    <3>1. /\ SendMail(t, ok) /\ At(t, "mail") /\ Topic(t) = x /\ mails'[x] = mails[x] + 1
          /\ task'[t].verdict = "SENT" /\ task'[t].at = "save" /\ faults' = faults
      BY <1>4, <2>6
    <3>2. t \in Runs
      BY <3>1 DEF Tasks, TypeInv, OwnTopic, At
    <3>3. x \notin task[t].todo
      BY <3>1, <3>2 DEF SpareInv, TodoIsRest, At, Handlings, BeforeMail
    <3>4. WillMail(t, x) /\ ~MayMail(t, x)' /\ Holds(t, x)'
      BY <1>1, <3>1, <3>3 DEF WillMail, MayMail, Holds, At, Topic, BeforeMail
    <3> QED
      BY <1>1, <2>1, <2>3, <2>4, <3>1, <3>2, <3>4, LegMailed
  <2> QED
    BY <2>5, <2>6
<1> QED
  BY <1>2, <1>5, <1>6 DEF SpareInv

(* Steps that send and record nothing: the events keep their places, the    *)
(* runs do not go back, and their mails are not lost without a fault.       *)
LEMMA SpareQuiet ==
    ASSUME TypeInv, TypeInv', SpareInv, UNCHANGED <<store, overlaps>>, faults' >= faults,
           TodoIsRest',
           \A w \in Runs, x \in Legs :
               /\ MayMail(w, x)' => MayMail(w, x)
               /\ Reminded(x) /\ WillMail(w, x)' => WillMail(w, x)
               /\ faults' = faults /\ Holds(w, x) => Holds(w, x)',
           \A e \in Events :
               /\ e \in unsent' => e \notin queued' /\ At(e, "idle")'
               /\ e \in queued' => At(e, "idle")'
               /\ \/ faults' > faults
                  \/ (e \in unsent' \cup queued' \/ WillMail(e, e)')
                        => (e \in unsent \cup queued \/ WillMail(e, e))
    PROVE  SpareInv'
<1> USE SpareTypes
<1>1. rows' = rows /\ mails' = mails /\ faults' \in Nat
  BY DEF store, TypeInv, NotificationsTypeOK
<1>2. EventMails'
  <2> SUFFICES ASSUME NEW e \in Events PROVE
        /\ mails'[e] <= 1 + faults'
        /\ e \in unsent' \cup queued' \/ WillMail(e, e)' => mails'[e] <= faults'
    BY DEF EventMails
  <2>1. /\ mails[e] <= 1 + faults /\ mails[e] \in Nat
        /\ e \in unsent \cup queued \/ WillMail(e, e) => mails[e] <= faults
    BY DEF SpareInv, EventMails
  <2> QED
    BY <1>1, <2>1
<1>3. ASSUME NEW x \in Legs PROVE LegMails(x)'
  <2>1. Reminded(x)' <=> Reminded(x)
    BY <1>1 DEF Reminded
  <2>2. \/ faults' > faults
        \/ \A w \in Runs : Holds(w, x) => Holds(w, x)'
    BY <1>1
  <2>3. LegMails(x) /\ mails'[x] = mails[x] /\ overlaps' >= overlaps
    BY <1>1 DEF SpareInv
  <2> QED
    BY <2>1, <2>2, <2>3, LegStays
<1> QED
  BY <1>2, <1>3 DEF SpareInv

LEMMA SpareAround ==
    ASSUME TypeInv, TypeInv', SpareInv,
           \/ \E e \in Events, ok \in BOOLEAN : Publish(e, ok)
           \/ \E e \in Events : Deliver(e)
           \/ Start \/ (\E ok \in BOOLEAN : Subscribe(ok)) \/ Crash
           \/ UNCHANGED notificationVars
    PROVE  SpareInv'
<1> USE SpareTypes
<1>1. faults' \in Nat /\ TodoIsRest /\ EventMails
  BY DEF SpareInv, TypeInv, NotificationsTypeOK
<1>2. CASE \/ \E e \in Events, ok \in BOOLEAN : Publish(e, ok)
           \/ Start \/ (\E ok \in BOOLEAN : Subscribe(ok))
           \/ UNCHANGED notificationVars
  <2>1. UNCHANGED <<task, store, overlaps>> /\ faults' >= faults
    BY <1>1, <1>2 DEF Publish, Start, Subscribe, Outcome, Fault, notificationVars, job
  <2>2. /\ \A e \in Events : e \in unsent' => e \in unsent /\ e \notin queued'
        /\ \A e \in Events : e \in queued' => e \in queued \cup unsent
    <3>1. \A e \in Events : e \in unsent => e \notin queued
      BY <1>1 DEF EventMails
    <3> QED
      BY <1>2, <3>1 DEF Publish, Start, Subscribe, notificationVars, broker
  <2>3. TodoIsRest'
    BY <1>1, <2>1 DEF TodoIsRest, Topic
  <2>4. \A e \in Events :
          /\ e \in unsent' => e \notin queued' /\ At(e, "idle")'
          /\ e \in queued' => At(e, "idle")'
    BY <1>1, <2>1, <2>2 DEF EventMails, At
  <2> QED
    BY <2>1, <2>2, <2>3, <2>4, SpareQuiet DEF MayMail, WillMail, Holds, At, Topic
<1>3. ASSUME NEW e \in Events, Deliver(e) PROVE SpareInv'
  <2>1. /\ UNCHANGED <<store, overlaps, faults, unsent>>
        /\ e \in queued /\ queued' = queued \ {e} /\ task' = [task EXCEPT ![e] = Handle(e, e)]
    BY <1>3 DEF Deliver, job
  <2>2. \A u \in Tasks : u # e => task'[u] = task[u]
    BY <2>1
  <2>3. TodoIsRest'
    BY <1>1, <2>2 DEF TodoIsRest, Topic
  <2>4. \A d \in Events :
          /\ d \in unsent' => d \notin queued' /\ At(d, "idle")'
          /\ d \in queued' => At(d, "idle")'
          /\ (d \in unsent' \cup queued' \/ WillMail(d, d)')
                => (d \in unsent \cup queued \/ WillMail(d, d))
    BY <1>1, <2>1, <2>2 DEF EventMails, At, WillMail, Topic
  <2>5. \A w \in Runs : task'[w] = task[w]
    BY <2>2
  <2> QED
    BY <2>1, <2>3, <2>4, <2>5, SpareQuiet DEF MayMail, WillMail, Holds, At, Topic
<1>4. CASE Crash
  <2>1. /\ UNCHANGED <<store, overlaps, unsent>> /\ faults' = faults + 1
        /\ queued' = queued \cup {e \in Events : ~At(e, "idle")}
        /\ \A t \in Tasks : task'[t] = Idle
    BY <1>4 DEF Crash, Fault, job
  <2>2. \A t \in Tasks : At(t, "idle")' /\ task'[t].at \notin Handlings /\ task'[t].at # "list"
    BY <2>1 DEF At, Idle, Handlings, BeforeMail
  <2>3. TodoIsRest'
    BY <2>2 DEF TodoIsRest
  <2>4. \A d \in Events :
          /\ d \in unsent' => d \notin queued' /\ At(d, "idle")'
          /\ d \in queued' => At(d, "idle")'
    BY <1>1, <2>1, <2>2 DEF EventMails
  <2>5. \A w \in Runs, x \in Legs : ~MayMail(w, x)' /\ ~WillMail(w, x)'
    BY <2>2 DEF MayMail, WillMail, At, Handlings
  <2>6. faults' > faults /\ faults' # faults /\ faults' >= faults
    BY <2>1
  <2> QED
    BY <2>1, <2>3, <2>4, <2>5, <2>6, SpareQuiet
<1> QED
  BY <1>2, <1>3, <1>4

(* A run of the job between its handlings, or an acknowledgement: the task  *)
(* becomes idle, lists, looks at the next leg, or handles a leg that has    *)
(* no SENT row and that it takes off its list.                              *)
LEMMA SpareTurn ==
    ASSUME TypeInv, TypeInv', SpareInv, NEW t \in Tasks,
           UNCHANGED <<store, unsent, queued, overlaps>>, faults' >= faults,
           \A u \in Tasks : u # t => task'[u] = task[u],
           ~At(t, "idle"), task[t].at # "save",
           \/ At(t, "idle")'
           \/ /\ At(t, "check")' /\ t \in Runs
              /\ \A x \in Legs : x \in task'[t].todo => MayMail(t, x)
           \/ /\ At(t, "user")' /\ t \in Runs
              /\ Topic(t)' \in Legs \ task'[t].todo /\ ~Reminded(Topic(t)')
              /\ \A x \in Legs : x \in task'[t].todo \cup {Topic(t)'} => MayMail(t, x)
    PROVE  SpareInv'
<1> USE SpareTypes
<1>1. TodoIsRest /\ EventMails
  BY DEF SpareInv
<1>2. TodoIsRest'
  BY <1>1 DEF TodoIsRest, Topic, At, Handlings, BeforeMail
<1>3. ASSUME NEW w \in Runs, NEW x \in Legs
      PROVE  /\ MayMail(w, x)' => MayMail(w, x)
             /\ Reminded(x) /\ WillMail(w, x)' => WillMail(w, x)
             /\ Holds(w, x) => Holds(w, x)'
  <2>1. CASE w # t
    BY <2>1 DEF MayMail, WillMail, Holds, At, Topic
  <2>2. CASE w = t
    BY <2>2 DEF MayMail, WillMail, Holds, At, Topic, BeforeMail
  <2> QED
    BY <2>1, <2>2
<1>4. ASSUME NEW e \in Events
      PROVE  /\ e \in unsent => e \notin queued /\ At(e, "idle")'
             /\ e \in queued => At(e, "idle")'
             /\ WillMail(e, e)' => WillMail(e, e)
  BY <1>1 DEF EventMails, At, WillMail, Topic, BeforeMail
<1> QED
  BY <1>2, <1>3, <1>4, SpareQuiet

LEMMA SpareJob ==
    ASSUME TypeInv, TypeInv', SpareInv, NEW t \in Tasks,
           \/ \E ok \in BOOLEAN : RunList(t, ok)
           \/ \E x \in Legs, ok \in BOOLEAN : RunCheck(t, x, ok)
           \/ RunNext(t)
           \/ Ack(t)
    PROVE  SpareInv'
<1> USE SpareTypes
<1>1. /\ UNCHANGED <<store, unsent, queued, overlaps>> /\ faults' >= faults
      /\ \A u \in Tasks : u # t => task'[u] = task[u]
      /\ ~At(t, "idle") /\ task[t].at # "save"
  <2>1. CASE \E ok \in BOOLEAN : RunList(t, ok)
    BY <2>1 DEF RunList, Outcome, Fault, broker, job, At
  <2>2. CASE \E x \in Legs, ok \in BOOLEAN : RunCheck(t, x, ok)
    BY <2>2 DEF RunCheck, Outcome, Fault, broker, job, At
  <2>3. CASE RunNext(t) \/ Ack(t)
    BY <2>3 DEF RunNext, Ack, broker, job, At
  <2> QED
    BY <2>1, <2>2, <2>3
<1>2. Idle.at = "idle"
      /\ \A todo \in SUBSET Legs :
            LET h == [Idle EXCEPT !.at = "check", !.todo = todo]
            IN  h.at = "check" /\ h.todo = todo
  BY DEF Idle
<1>3. CASE Ack(t)
  <2>1. At(t, "idle")'
    BY <1>2, <1>3 DEF Ack, At
  <2> QED
    BY <1>1, <2>1, SpareTurn
<1>4. CASE \E ok \in BOOLEAN : RunList(t, ok)
  <2>1. At(t, "list") /\ t \in Runs /\ \A x \in Legs : MayMail(t, x)
    BY <1>4 DEF RunList, TypeInv, OwnTopic, At, Tasks, MayMail
  <2>2. task'[t].at = "idle" \/ task'[t].at = "check"
    BY <1>2, <1>4 DEF RunList
  <2> QED
    BY <1>1, <2>1, <2>2, SpareTurn DEF At
<1>5. CASE RunNext(t)
  <2>1. /\ t \in Runs /\ At(t, "end") /\ task[t].todo \subseteq Legs
        /\ \A x \in task[t].todo : MayMail(t, x)
    BY <1>5, HandlingType DEF RunNext, MayMail, At
  <2>2. \/ task'[t].at = "idle"
        \/ task'[t].at = "check" /\ task'[t].todo = task[t].todo
    BY <1>2, <1>5, <2>1 DEF RunNext
  <2> QED
    BY <1>1, <2>1, <2>2, SpareTurn DEF At
<1>6. ASSUME NEW x \in Legs, NEW ok \in BOOLEAN, RunCheck(t, x, ok) PROVE SpareInv'
  <2> DEFINE rest == task[t].todo \ {x}
             g == [task[t] EXCEPT !.todo = rest]
             h == [Handle(t, x) EXCEPT !.todo = rest]
  <2>1. /\ At(t, "check") /\ t \in Runs /\ x \in task[t].todo /\ task[t] \in Handling
        /\ \A y \in task[t].todo : MayMail(t, y)
    BY <1>6 DEF RunCheck, TypeInv, OwnTopic, At, Tasks, MayMail
  <2>2. /\ g.at = "check" /\ g.todo = rest
        /\ h.at = "user" /\ h.topic = x /\ h.todo = rest
    BY <2>1 DEF Handling, Handle, At
  <2>3. \/ task' = [task EXCEPT ![t] = Idle] \/ task' = [task EXCEPT ![t] = g]
        \/ task' = [task EXCEPT ![t] = h] /\ ~Reminded(x)
    BY <1>6 DEF RunCheck
  <2> HIDE DEF g, h
  <2>4. task'[t] = Idle \/ task'[t] = g \/ (task'[t] = h /\ ~Reminded(x))
    BY <2>3
  <2>5. Reminded(x)' <=> Reminded(x)
    BY <1>1 DEF Reminded, store
  <2>6. \/ At(t, "idle")'
        \/ At(t, "check")' /\ task'[t].todo = rest
        \/ At(t, "user")' /\ Topic(t)' = x /\ task'[t].todo = rest /\ ~Reminded(x)
    BY <1>2, <2>2, <2>4 DEF At, Topic
  <2> QED
    BY <1>1, <2>1, <2>5, <2>6, SpareTurn
<1> QED
  BY <1>3, <1>4, <1>5, <1>6

LEMMA SpareStart ==
    ASSUME TypeInv, TypeInv', SpareInv, NEW w \in Runs, RunStart(w)
    PROVE  SpareInv'
<1> USE SpareTypes
<1>1. /\ UNCHANGED <<rows, mails, unsent, queued, faults>>
      /\ task' = [task EXCEPT ![w].at = "list"]
      /\ \/ overlaps' = overlaps + 1
         \/ overlaps' = overlaps /\ Active = {}
  BY DEF RunStart, broker, store, Goto, Active
<1>2. /\ \A u \in Tasks : u # w => task'[u] = task[u]
      /\ task'[w].at = "list"
  BY <1>1 DEF Handling
<1>3. TodoIsRest'
  BY <1>2 DEF SpareInv, TodoIsRest, Topic, Handlings, BeforeMail
<1>4. EventMails'
  <2>1. \A e \in Events : task'[e] = task[e]
    BY <1>2
  <2> QED
    BY <1>1, <2>1 DEF SpareInv, EventMails, At, WillMail, Topic
<1>5. ASSUME NEW x \in Legs PROVE LegMails(x)'
  <2>1. \A v \in Runs : v # w => (MayMail(v, x)' <=> MayMail(v, x))
    BY <1>2 DEF MayMail, WillMail, At, Topic
  <2>2. \A v \in Runs : WillMail(v, x)' => WillMail(v, x)
    BY <1>2 DEF WillMail, Topic, BeforeMail
  <2>3. MayMail(w, x)' /\ (Reminded(x)' <=> Reminded(x)) /\ LegMails(x)
    BY <1>1, <1>2 DEF MayMail, At, Reminded, SpareInv
  <2> QED
    BY <1>1, <2>1, <2>2, <2>3, LegStarted
<1> QED
  BY <1>3, <1>4, <1>5 DEF SpareInv

LEMMA SpareInit == NotificationsInit => SpareInv
<1> SUFFICES ASSUME NotificationsInit PROVE SpareInv
  OBVIOUS
<1>1. /\ TypeInv /\ \A t \in Tasks : task[t] = Idle
      /\ rows = <<>> /\ mails = [x \in Topics |-> 0] /\ queued = {} /\ overlaps = 0 /\ faults = 0
  BY TypeInit DEF NotificationsInit
<1> USE SpareTypes
<1>2. \A t \in Tasks : task[t].at = "idle"
  BY <1>1 DEF Idle
<1>3. TodoIsRest
  BY <1>1, <1>2 DEF TodoIsRest, Handlings, BeforeMail
<1>4. EventMails
  BY <1>1, <1>2 DEF EventMails, At
<1>5. ASSUME NEW x \in Legs PROVE LegMails(x)
  <2>1. Willing(x) = {} /\ Bound(x) = {}
    BY <1>1, <1>2 DEF Willing, Bound, MayMail, WillMail, At, BeforeMail
  <2>2. Cardinality(Willing(x)) = 0 /\ Cardinality(Bound(x)) = 0
    BY <2>1, FS_EmptySet
  <2> QED
    BY <1>1, <2>2 DEF LegMails
<1> QED
  BY <1>3, <1>4, <1>5 DEF SpareInv

LEMMA SpareStep ==
    ASSUME TypeInv, TypeInv', SafeInv, SpareInv, [NotificationsNext]_notificationVars
    PROVE  SpareInv'
<1>1. ASSUME NEW t \in Tasks, Work(t) PROVE SpareInv'
  <2>1. CASE \E ok \in BOOLEAN : HandleStep(t, ok)
    BY <2>1, SpareHandle
  <2> QED
    BY <1>1, <2>1, SpareJob DEF Work
<1>2. ASSUME NEW w \in Runs, RunStart(w) PROVE SpareInv'
  BY <1>2, SpareStart
<1>3. CASE UNCHANGED notificationVars
  BY <1>3, SpareAround
<1> QED
  BY <1>1, <1>2, <1>3, SpareAround DEF NotificationsNext

(* However many handlers and runs overlap and whatever is delivered again,  *)
(* every mail about an event but one stands for a fault, and every reminder *)
(* of a departure but one for a fault or for a run that overlapped another. *)
THEOREM NoMailIsSpare == NotificationsSpec => []NoSpareMail
<1>1. TypeInv /\ SpareInv => NoSpareMail
  <2> SUFFICES ASSUME TypeInv, SpareInv PROVE NoSpareMail
    OBVIOUS
  <2>1. \A e \in Events : mails[e] <= 1 + faults
    BY DEF SpareInv, EventMails
  <2>2. ASSUME NEW x \in Legs PROVE mails[x] <= 1 + faults + overlaps
    <3>1. LegMails(x) /\ mails[x] \in Nat /\ faults \in Nat /\ overlaps \in Nat
      BY SpareTypes DEF SpareInv
    <3> QED
      BY <3>1, RunsCounted DEF LegMails
  <2> QED
    BY <2>1, <2>2 DEF NoSpareMail
<1>2. TypeInv /\ SafeInv /\ SpareInv /\ [NotificationsNext]_notificationVars => SpareInv'
  BY TypeStep, SpareStep
<1> QED
  BY <1>1, <1>2, SpareInit, SafeAlways, PTL DEF NotificationsSpec
================================================================================
