------------------------------ MODULE Schedule ------------------------------
(***************************************************************************)
(* Scheduled messages of one mesh: the broker's entries and timers, their  *)
(* rows, the writes between them that nobody awaits, and the recovery at   *)
(* startup, which runs while the broker already serves.                    *)
(***************************************************************************)
EXTENDS Naturals, FiniteSets

CONSTANTS Pres, MemberOf, Entry,
          Cron,   \* entries that recur
          BootOf, \* the start of the broker after which a presence connects
          None, MaxBoot

Timer == {"live", "recovered", "spent"}
Mark == {"in", "fired", "cancelled"}

ASSUME ScheduleAssumption ==
  /\ DOMAIN MemberOf = Pres /\ Cron \subseteq Entry /\ None \notin Pres \cup Timer
  /\ MaxBoot \in Nat /\ BootOf \in [Pres -> 0..MaxBoot]

VARIABLES
  boot,     \* restarts so far
  conn,     \* connections
  entries,  \* keys of scheduledMessages
  owner,    \* presence that scheduled the entry
  timers,   \* timers armed: by the handler, by the recovery, or by a recovered firing
  handle,   \* the one the entry refers to
  row,      \* the entry's row: whether it is there, fired, cancelled
  writes,   \* statements under way
  recovery, \* the recovery's state and the rows it selected
  born,     \* entries scheduled since the last start
  sent,     \* messages sent since the last start: none, one or more
  parted    \* entries one of whose statements failed or found no row

vars == <<boot, conn, entries, owner, timers, handle, row, writes, recovery, born, sent, parted>>

TypeOK ==
  /\ boot \in 0..MaxBoot
  /\ conn \in [Pres -> {"new", "on", "off"}]
  /\ entries \subseteq Entry /\ owner \in [Entry -> Pres \cup {None}]
  /\ timers \in [Entry -> SUBSET Timer] /\ handle \in [Entry -> Timer \cup {None}]
  /\ \A e \in entries : owner[e] # None /\ handle[e] # None
  /\ row \in [Entry -> SUBSET Mark] /\ writes \in [Entry -> SUBSET Mark]
  /\ recovery \in [st : {"starts", "read", "done"}, rows : SUBSET Entry]
  /\ born \subseteq Entry /\ sent \in [Entry -> 0..2] /\ parted \subseteq Entry

Init ==
  /\ boot = 0 /\ conn = [p \in Pres |-> "new"]
  /\ entries = {} /\ owner = [e \in Entry |-> None]
  /\ timers = [e \in Entry |-> {}] /\ handle = [e \in Entry |-> None]
  /\ row = [e \in Entry |-> {}] /\ writes = [e \in Entry |-> {}]
  /\ recovery = [st |-> "starts", rows |-> {}]
  /\ born = {} /\ sent = [e \in Entry |-> 0] /\ parted = {}

On == {p \in Pres : conn[p] = "on"}

Join(p) ==
  /\ conn[p] = "new" /\ BootOf[p] = boot /\ conn' = [conn EXCEPT ![p] = "on"]
  /\ UNCHANGED <<boot, entries, owner, timers, handle, row, writes, recovery, born, sent, parted>>

Leave(p) ==
  /\ conn[p] = "on" /\ conn' = [conn EXCEPT ![p] = "off"]
  /\ UNCHANGED <<boot, entries, owner, timers, handle, row, writes, recovery, born, sent, parted>>

-----------------------------------------------------------------------------
(* The handlers.                                                           *)

ScheduleRequested(p, e) ==
  /\ conn[p] = "on" /\ owner[e] = None
  /\ entries' = entries \cup {e} /\ born' = born \cup {e}
  /\ owner' = [owner EXCEPT ![e] = p]
  /\ timers' = [timers EXCEPT ![e] = {"live"}] /\ handle' = [handle EXCEPT ![e] = "live"]
  /\ writes' = [writes EXCEPT ![e] = {"in"}]
  /\ UNCHANGED <<boot, conn, row, recovery, sent, parted>>

\* The timer the entry refers to is cleared.
CancelScheduled(p, e) ==
  /\ conn[p] = "on" /\ e \in entries /\ MemberOf[owner[e]] = MemberOf[p]
  /\ timers' = [timers EXCEPT ![e] = @ \ {handle[e]}]
  /\ entries' = entries \ {e}
  /\ writes' = [writes EXCEPT ![e] = @ \cup {"cancelled"}]
  /\ UNCHANGED <<boot, conn, owner, handle, row, recovery, born, sent, parted>>

-----------------------------------------------------------------------------
(* Timers.                                                                 *)

\* A timer armed by the handler speaks for the presence that scheduled the entry,
\* one armed by the recovery for any peer of the mesh. With nobody to speak for the
\* message is skipped, and counts as fired.
Delivered(e, by) ==
  sent' = IF by \cap On = {} \/ sent[e] = 2 THEN sent ELSE [sent EXCEPT ![e] = @ + 1]

\* A one-shot is done; a recurring entry refers to the timer armed next.
Rearmed(e, t, next) ==
  IF e \in Cron
  THEN /\ timers' = [timers EXCEPT ![e] = (@ \ {t}) \cup {next}]
       /\ handle' = [handle EXCEPT ![e] = next] /\ UNCHANGED entries
  ELSE /\ timers' = [timers EXCEPT ![e] = @ \ {t}]
       /\ entries' = entries \ {e} /\ UNCHANGED handle

\* Mutant: the firing is recorded for recurring entries only.
FiresUnrecorded(e, t, by, next) ==
  /\ t \in timers[e] /\ e \in entries
  /\ Delivered(e, by) /\ Rearmed(e, t, next)
  /\ writes' = IF e \in Cron THEN [writes EXCEPT ![e] = @ \cup {"fired"}] ELSE writes
  /\ UNCHANGED <<boot, conn, owner, row, recovery, born, parted>>

Fires(e, t, by, next) ==
  /\ t \in timers[e] /\ e \in entries
  /\ Delivered(e, by) /\ Rearmed(e, t, next)
  /\ writes' = [writes EXCEPT ![e] = @ \cup {"fired"}]
  /\ UNCHANGED <<boot, conn, owner, row, recovery, born, parted>>

\* The timer of an entry that is gone, or the empty one a recovered firing armed.
FiresIntoNothing(e, t) ==
  /\ t \in timers[e] /\ (e \notin entries \/ t = "spent")
  /\ timers' = [timers EXCEPT ![e] = @ \ {t}]
  /\ UNCHANGED <<boot, conn, entries, owner, handle, row, writes, recovery, born, sent, parted>>

TimerFires(e) ==
  \/ Fires(e, "live", {owner[e]}, "live")
  \/ Fires(e, "recovered", Pres, "spent")
  \/ \E t \in Timer : FiresIntoNothing(e, t)

-----------------------------------------------------------------------------
(* Statements: on connections of a pool, in any order, awaited by nobody.  *)

WriteLands(e, w) ==
  /\ w \in writes[e] /\ writes' = [writes EXCEPT ![e] = @ \ {w}]
  /\ IF w = "in" \/ "in" \in row[e]
     THEN row' = [row EXCEPT ![e] = @ \cup {w}] /\ UNCHANGED parted
     ELSE parted' = parted \cup {e} /\ UNCHANGED row
  /\ UNCHANGED <<boot, conn, entries, owner, timers, handle, recovery, born, sent>>

WriteFails(e, w) ==
  /\ w \in writes[e] /\ writes' = [writes EXCEPT ![e] = @ \ {w}]
  /\ parted' = parted \cup {e}
  /\ UNCHANGED <<boot, conn, entries, owner, timers, handle, row, recovery, born, sent>>

-----------------------------------------------------------------------------
(* Restart and recovery.                                                   *)

Restart ==
  /\ boot < MaxBoot /\ boot' = boot + 1
  /\ conn' = [p \in Pres |-> IF conn[p] = "on" THEN "off" ELSE conn[p]]
  /\ entries' = {} /\ timers' = [e \in Entry |-> {}] /\ handle' = [e \in Entry |-> None]
  /\ writes' = [e \in Entry |-> {}]
  /\ parted' = parted \cup {e \in Entry : writes[e] # {}}
  /\ recovery' = [st |-> "starts", rows |-> {}]
  /\ born' = {} /\ sent' = [e \in Entry |-> 0]
  /\ UNCHANGED <<owner, row>>

\* Mutant: cancelled rows are selected too.
CancelledToo(e) == "in" \in row[e] /\ (e \in Cron \/ "fired" \notin row[e])

\* What the recovery selects.
Recoverable(e) ==
  "in" \in row[e] /\ "cancelled" \notin row[e] /\ (e \in Cron \/ "fired" \notin row[e])

\* Mutant: the recovery is repeated.
RowsSelectedAgain ==
  /\ recovery.st # "read"
  /\ recovery' = [st |-> "read", rows |-> {e \in Entry : Recoverable(e)}]
  /\ UNCHANGED <<boot, conn, entries, owner, timers, handle, row, writes, born, sent, parted>>

RowsSelected ==
  /\ recovery.st = "starts"
  /\ recovery' = [st |-> "read", rows |-> {e \in Entry : Recoverable(e)}]
  /\ UNCHANGED <<boot, conn, entries, owner, timers, handle, row, writes, born, sent, parted>>

\* Mutant: the timer is not kept.
RecoveredUnhandled ==
  /\ recovery.st = "read" /\ recovery' = [recovery EXCEPT !.st = "done"]
  /\ entries' = entries \cup recovery.rows
  /\ timers' = [e \in Entry |-> IF e \in recovery.rows THEN timers[e] \cup {"recovered"} ELSE timers[e]]
  /\ UNCHANGED <<boot, conn, owner, handle, row, writes, born, sent, parted>>

\* Each row's entry takes the place of one that has come to be, whose timer runs on.
Recovered ==
  /\ recovery.st = "read" /\ recovery' = [recovery EXCEPT !.st = "done"]
  /\ entries' = entries \cup recovery.rows
  /\ timers' = [e \in Entry |-> IF e \in recovery.rows THEN timers[e] \cup {"recovered"} ELSE timers[e]]
  /\ handle' = [e \in Entry |-> IF e \in recovery.rows THEN "recovered" ELSE handle[e]]
  /\ UNCHANGED <<boot, conn, owner, row, writes, born, sent, parted>>

Next ==
  \/ \E p \in Pres : \/ Join(p) \/ Leave(p)
                     \/ \E e \in Entry : ScheduleRequested(p, e) \/ CancelScheduled(p, e)
  \/ \E e \in Entry : TimerFires(e) \/ \E w \in Mark : WriteLands(e, w) \/ WriteFails(e, w)
  \/ Restart \/ RowsSelected \/ Recovered

Spec == Init /\ [][Next]_vars

-----------------------------------------------------------------------------
(* Properties.                                                             *)

\* Scheduled while the recovery was reading, and read by it.
TakenTwice(e) == e \in born /\ e \in recovery.rows

\* Between two restarts a one-shot is sent once at most: neither its cancellation,
\* its recovery nor the loss of its writes makes a second timer for it.
OneShotOnce == \A e \in Entry \ Cron : ~TakenTwice(e) => sent[e] <= 1

\* Once the recovery is over, what a later one would take up is in memory or has its
\* end on the way to the table, so that a restart neither adds nor loses a message,
\* unless a write failed or was overtaken.
RowsMatchEntries ==
  recovery.st = "done" =>
    \A e \in Entry \ parted :
      /\ Recoverable(e) => e \in entries \/ writes[e] \cap {"fired", "cancelled"} # {}
      /\ e \in entries /\ ~TakenTwice(e) => Recoverable(e) \/ writes[e] # {}

\* A cancelled message stays unsent, whichever timers are still armed and whatever a
\* restart recovers, once its row says so or as long as the statement is under way.
CancelledIsSilent ==
  [][\A e \in Entry : "cancelled" \in row[e] \cup writes[e] /\ ~TakenTwice(e)
       => sent'[e] <= sent[e]]_vars

\* A recovered recurring entry has a timer that will send it: "Schedules survive broker
\* restarts via recoverScheduledMessages() on boot".
CronStaysArmed ==
  \A e \in (entries \cap Cron) \ born : timers[e] \cap {"live", "recovered"} # {}
=============================================================================
