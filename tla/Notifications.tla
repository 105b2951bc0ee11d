----------------------------- MODULE Notifications -----------------------------
(***************************************************************************)
(* The notification service: events that the other services publish to     *)
(* RabbitMQ, the consumers of its one durable queue, handleEvent with its  *)
(* record, its mail and its catch-all, the acknowledgement, and the hourly *)
(* job that sends departure reminders through the same handleEvent.        *)
(*                                                                         *)
(* The consumers set no prefetch, so every queued message is delivered at  *)
(* once and the handlers run concurrently: the queue is a set.  A lost     *)
(* connection to the broker ends the process (nothing listens for its      *)
(* error event), and so does a crash; unacknowledged messages are queued   *)
(* again.                                                                  *)
(***************************************************************************)
EXTENDS Integers, Sequences, FiniteSets

CONSTANTS
    Events,        \* messages: a booking's, a payment's or a registration's
    Key,           \* Key[e]: the binding e's routing key falls under
    NeedsBooking,  \* events whose mail shows the booking (confirmed, cancelled by admin)
    Legs,          \* flights of confirmed bookings that depart within 24 hours
    Runs,          \* runs of the hourly job
    Loads,         \* what can come up together: [tasks, faults], the events and
                   \*   runs, and a bound on failed calls, statements and crashes
    Nothing

Bindings == <<"booking", "payment", "register">>
Tasks == Events \cup Runs
Topics == Events \cup Legs

ASSUME NotificationsAssumption ==
    /\ Events \cap Runs = {} /\ Events \cap Legs = {} /\ Nothing \notin Topics
    /\ IsFiniteSet(Events) /\ IsFiniteSet(Legs) /\ IsFiniteSet(Runs)
    /\ Key \in [Events -> {"booking", "payment", "register"}]
    /\ NeedsBooking \subseteq {e \in Events : Key[e] = "booking"}
    /\ Loads \subseteq [tasks : SUBSET Tasks, faults : Nat]

VARIABLES
    linked,     \* linked: the publishing services got a channel when they started
    smtp,       \* smtp: mail goes by Nodemailer; otherwise by Resend
    unsent,     \* events that have not happened yet
    bound,      \* the queue's bindings, which the broker keeps
    queued,     \* messages in the queue
    acked,      \* messages acknowledged
    boot,       \* the service's start: "down", "connect" or "done"
    consumers,  \* number of subscriptions made
    task,       \* task[t]: where the handling of an event, or a job run, is
    rows,       \* notification rows: topic and status
    mails,      \* history: mails[x]: mails that were accepted about x
    muted,      \* history: topics whose mail Resend refused, unnoticed
    silent,     \* history: topics whose failure could not be recorded
    due,        \* runs of the job that are still to come
    overlaps,   \* history: job runs that started while another was on
    maxFaults,  \* the bound of this behaviour
    faults

broker == <<linked, unsent, bound, queued, acked>>
service == <<boot, consumers>>
store == <<rows, mails, muted, silent>>
job == <<due, overlaps>>
setup == <<smtp, maxFaults>>
notificationVars == <<broker, setup, service, task, store, job, faults>>

HandlerSteps == {"list", "check", "user", "booking", "record", "mail", "save", "catch", "end"}
Idle == [at |-> "idle", topic |-> Nothing, todo |-> {}, row |-> 0, verdict |-> "PENDING"]

NotificationsInit ==
    /\ linked \in BOOLEAN /\ smtp \in BOOLEAN
    /\ \E load \in Loads :
          unsent = load.tasks \cap Events /\ due = load.tasks \cap Runs /\ maxFaults = load.faults
    /\ queued = {} /\ acked = {}
    /\ bound \in {{}, {"booking", "payment", "register"}}
    /\ boot = "down" /\ consumers = 0
    /\ task = [t \in Tasks |-> Idle]
    /\ rows = <<>>
    /\ mails = [x \in Topics |-> 0]
    /\ muted = {} /\ silent = {} /\ overlaps = 0 /\ faults = 0

Fault ==
    /\ faults < maxFaults
    /\ faults' = faults + 1

(* A call or a statement that may fail: by a fault, if it does. *)
Outcome(ok) == IF ok THEN UNCHANGED faults ELSE Fault

At(t, l) == task[t].at = l
Goto(t, l) == task' = [task EXCEPT ![t].at = l]
Topic(t) == task[t].topic
Handle(t, x) == [task[t] EXCEPT !.at = "user", !.topic = x]

-------------------------------------------------------------------------------
(* Publishing and the broker *)

(* Without a channel the event is skipped, and an error of the publication  *)
(* is swallowed.  A message that no binding matches is dropped.             *)
Publish(e, ok) ==
    /\ e \in unsent
    /\ unsent' = unsent \ {e}
    /\ Outcome(ok)
    /\ queued' = IF ok /\ linked /\ Key[e] \in bound THEN queued \cup {e} ELSE queued
    /\ UNCHANGED <<linked, bound, acked, setup, service, task, store, job>>

Start ==
    /\ boot = "down"
    /\ boot' = "connect"
    /\ UNCHANGED <<broker, setup, consumers, task, store, job, faults>>

(* One subscription after the other: bind the queue, then consume from it.  *)
(* An error ends the attempt for good, and the service runs on without.     *)
Subscribe(ok) ==
    /\ boot = "connect"
    /\ Outcome(ok)
    /\ IF ok
       THEN /\ consumers' = consumers + 1
            /\ bound' = bound \cup {Bindings[consumers + 1]}
            /\ boot' = IF consumers + 1 = Len(Bindings) THEN "done" ELSE "connect"
       ELSE boot' = "done" /\ UNCHANGED <<consumers, bound>>
    /\ UNCHANGED <<linked, unsent, queued, acked, setup, task, store, job>>

Deliver(e) ==
    /\ consumers > 0 /\ e \in queued
    /\ queued' = queued \ {e}
    /\ task' = [task EXCEPT ![e] = Handle(e, e)]
    /\ UNCHANGED <<linked, unsent, bound, acked, setup, service, store, job, faults>>

(* Mutant: only an event that was mailed is acknowledged. *)
Ack_MailedOnly(e) ==
    /\ e \in Events /\ At(e, "end") /\ mails[e] > 0
    /\ acked' = acked \cup {e}
    /\ task' = [task EXCEPT ![e] = Idle]
    /\ UNCHANGED <<linked, unsent, bound, queued, setup, service, store, job, faults>>

(* handleEvent throws nothing, so every delivery is acknowledged. *)
Ack(e) ==
    /\ e \in Events /\ At(e, "end")
    /\ acked' = acked \cup {e}
    /\ task' = [task EXCEPT ![e] = Idle]
    /\ UNCHANGED <<linked, unsent, bound, queued, setup, service, store, job, faults>>

(* The process dies, or its connection to the broker. *)
Crash ==
    /\ boot # "down" /\ Fault
    /\ boot' = "down" /\ consumers' = 0
    /\ queued' = queued \cup {e \in Events : ~At(e, "idle")}
    /\ task' = [t \in Tasks |-> Idle]
    /\ UNCHANGED <<linked, unsent, bound, acked, setup, store, job>>

-------------------------------------------------------------------------------
(* handleEvent, for an event or for a reminder *)

FetchUser(t, ok) ==
    /\ At(t, "user") /\ Outcome(ok)
    /\ Goto(t, IF ~ok THEN "catch"
               ELSE IF t \in Events /\ Key[t] = "register" THEN "record" ELSE "booking")
    /\ UNCHANGED <<broker, setup, service, store, job>>

(* getEmailTemplate: a template that shows the booking throws without one.  *)
Rendered(x, found) == found \/ x \notin NeedsBooking

(* The client answers [] when the call fails.                               *)
FetchBooking(t, ok) ==
    /\ At(t, "booking") /\ Outcome(ok)
    /\ Goto(t, IF Rendered(Topic(t), ok) THEN "record" ELSE "catch")
    /\ UNCHANGED <<broker, setup, service, store, job>>

CreateRecord(t, ok) ==
    /\ At(t, "record") /\ Outcome(ok)
    /\ IF ok
       THEN /\ rows' = Append(rows, [topic |-> Topic(t), status |-> "PENDING"])
            /\ task' = [task EXCEPT ![t].at = "mail", ![t].row = Len(rows) + 1]
       ELSE Goto(t, "catch") /\ UNCHANGED rows
    /\ UNCHANGED <<broker, setup, service, mails, muted, silent, job>>

(* Nodemailer throws when it fails; Resend returns an error, which is not   *)
(* looked at.                                                               *)
SendMail(t, ok) ==
    /\ At(t, "mail") /\ Outcome(ok)
    /\ task' = [task EXCEPT ![t].at = "save",
                            ![t].verdict = IF ok \/ ~smtp THEN "SENT" ELSE "FAILED"]
    /\ mails' = IF ok THEN [mails EXCEPT ![Topic(t)] = @ + 1] ELSE mails
    /\ muted' = IF ok \/ smtp THEN muted ELSE muted \cup {Topic(t)}
    /\ UNCHANGED <<broker, setup, service, rows, silent, job>>

SaveRecord(t, ok) ==
    /\ At(t, "save") /\ Outcome(ok)
    /\ IF ok
       THEN rows' = [rows EXCEPT ![task[t].row].status = task[t].verdict] /\ Goto(t, "end")
       ELSE Goto(t, "catch") /\ UNCHANGED rows
    /\ UNCHANGED <<broker, setup, service, mails, muted, silent, job>>

(* Mutant: the failure is only logged. *)
Catch_LogOnly(t, ok) ==
    /\ At(t, "catch") /\ Outcome(ok)
    /\ Goto(t, "end")
    /\ UNCHANGED <<broker, setup, service, store, job>>

(* A second row records the failure.  For a reminder the code first refers  *)
(* to a variable of the try block, and that error is swallowed: no row.     *)
Catch(t, ok) ==
    /\ At(t, "catch") /\ Outcome(ok)
    /\ IF ok /\ t \in Events
       THEN rows' = Append(rows, [topic |-> Topic(t), status |-> "FAILED"]) /\ UNCHANGED silent
       ELSE silent' = silent \cup {Topic(t)} /\ UNCHANGED rows
    /\ Goto(t, "end")
    /\ UNCHANGED <<broker, setup, service, mails, muted, job>>

-------------------------------------------------------------------------------
(* The departure reminder job *)

RunStart(w) ==
    /\ boot # "down" /\ w \in due
    /\ due' = due \ {w}
    /\ Goto(w, "list")
    /\ overlaps' = IF \A v \in Runs : At(v, "idle") THEN overlaps ELSE overlaps + 1
    /\ UNCHANGED <<broker, setup, service, store, faults>>

(* getUpcomingBookings; [] when the call fails. *)
RunList(w, ok) ==
    /\ At(w, "list") /\ Outcome(ok)
    /\ task' = [task EXCEPT ![w] = IF ok /\ Legs # {} THEN [Idle EXCEPT !.at = "check", !.todo = Legs]
                                   ELSE Idle]
    /\ UNCHANGED <<broker, setup, service, store, job>>

Reminded(x) == \E i \in DOMAIN rows : rows[i].topic = x /\ rows[i].status = "SENT"

(* Mutant: the job does not look for a reminder that was sent. *)
RunCheck_Always(w, x, ok) ==
    /\ At(w, "check") /\ x \in task[w].todo /\ Outcome(ok)
    /\ task' = [task EXCEPT ![w] = IF ~ok THEN Idle
                                   ELSE [Handle(w, x) EXCEPT !.todo = @ \ {x}]]
    /\ UNCHANGED <<broker, setup, service, store, job>>

(* findExistingReminder for the next leg; its error ends the run. *)
RunCheck(w, x, ok) ==
    /\ At(w, "check") /\ x \in task[w].todo /\ Outcome(ok)
    /\ LET rest == task[w].todo \ {x}
       IN  task' = [task EXCEPT ![w] =
                IF ~ok \/ (Reminded(x) /\ rest = {}) THEN Idle
                ELSE IF Reminded(x) THEN [@ EXCEPT !.todo = rest]
                ELSE [Handle(w, x) EXCEPT !.todo = rest]]
    /\ UNCHANGED <<broker, setup, service, store, job>>

RunNext(w) ==
    /\ w \in Runs /\ At(w, "end")
    /\ task' = [task EXCEPT ![w] = IF task[w].todo = {} THEN Idle
                                   ELSE [Idle EXCEPT !.at = "check", !.todo = task[w].todo]]
    /\ UNCHANGED <<broker, setup, service, store, job, faults>>

-------------------------------------------------------------------------------
HandleStep(t, ok) ==
    \/ FetchUser(t, ok) \/ FetchBooking(t, ok) \/ CreateRecord(t, ok)
    \/ SendMail(t, ok) \/ SaveRecord(t, ok) \/ Catch(t, ok)

Work(t) ==
    \/ \E ok \in BOOLEAN : HandleStep(t, ok)
    \/ Ack(t)
    \/ \E ok \in BOOLEAN : RunList(t, ok)
    \/ \E x \in Legs, ok \in BOOLEAN : RunCheck(t, x, ok)
    \/ RunNext(t)

NotificationsNext ==
    \/ \E e \in Events, ok \in BOOLEAN : Publish(e, ok)
    \/ Start
    \/ \E ok \in BOOLEAN : Subscribe(ok)
    \/ \E e \in Events : Deliver(e)
    \/ \E t \in Tasks : Work(t)
    \/ \E w \in Runs : RunStart(w)
    \/ Crash

NotificationsSpec == NotificationsInit /\ [][NotificationsNext]_notificationVars

(* The broker delivers; every call of a handler has a time limit, so it     *)
(* goes on.  Nothing restarts the process or runs the job with certainty.   *)
NotificationsFair ==
    /\ \A e \in Events : WF_notificationVars(Deliver(e))
    /\ \A t \in Tasks : WF_notificationVars(Work(t))

-------------------------------------------------------------------------------
(* Properties *)

NotificationsTypeOK ==
    /\ linked \in BOOLEAN /\ smtp \in BOOLEAN
    /\ unsent \subseteq Events /\ queued \subseteq Events /\ acked \subseteq Events
    /\ bound \subseteq {"booking", "payment", "register"}
    /\ boot \in {"down", "connect", "done"} /\ consumers \in 0..3
    /\ task \in [Tasks -> [at : HandlerSteps \cup {"idle"}, topic : Topics \cup {Nothing},
                           todo : SUBSET Legs, row : Nat,
                           verdict : {"PENDING", "SENT", "FAILED"}]]
    /\ rows \in Seq([topic : Topics, status : {"PENDING", "SENT", "FAILED"}])
    /\ \A t \in Tasks :
          /\ ~At(t, "idle") /\ ~At(t, "list") /\ ~At(t, "check") => Topic(t) \in Topics
          /\ At(t, "mail") \/ At(t, "save") => task[t].row \in 1..Len(rows)
    /\ mails \in [Topics -> Nat] /\ muted \subseteq Topics /\ silent \subseteq Topics
    /\ due \subseteq Runs /\ overlaps \in Nat /\ maxFaults \in Nat /\ faults \in 0..maxFaults

(* An event that was acknowledged, and so is never tried again, was mailed  *)
(* or left a row that says it failed; the exceptions are the two failures   *)
(* the code cannot see or record: Resend refused, or the database did.      *)
AckedIsAccountedFor ==
    \A e \in acked :
        \/ mails[e] > 0
        \/ \E i \in DOMAIN rows : rows[i] = [topic |-> e, status |-> "FAILED"]
        \/ e \in muted \cup silent

(* A row that users are shown (SENT) stands for a mail that was accepted,   *)
(* unless Resend refused it; with Nodemailer always.                        *)
SentRowIsTrue ==
    \A i \in DOMAIN rows :
        rows[i].status = "SENT" => mails[rows[i].topic] > 0 \/ rows[i].topic \in muted

(* What the service and its users are told of mails is so. *)
RecordsAreTrue == AckedIsAccountedFor /\ SentRowIsTrue

(* A second mail about the same event or departure takes a fault: a crash   *)
(* between the mail and its acknowledgement or row, or a row that could not *)
(* be saved; for a departure, also a job run that overlaps another.         *)
NoSpareMail ==
    /\ \A e \in Events : mails[e] <= 1 + faults
    /\ \A x \in Legs : mails[x] <= 1 + faults + overlaps

(* While the service stays up with a consumer, every queued event is        *)
(* acknowledged and every run of the job ends, whatever fails.              *)
WorkEnds ==
    <>[](consumers > 0) =>
        /\ \A e \in Events : e \in queued ~> e \in acked
        /\ \A w \in Runs : ~At(w, "idle") ~> At(w, "idle")
================================================================================
