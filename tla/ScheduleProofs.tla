--------------------------- MODULE ScheduleProofs ---------------------------
(***************************************************************************)
(* What the broker's scheduled messages guarantee for any number of        *)
(* entries, presences and restarts.                                        *)
(***************************************************************************)
EXTENDS Schedule, TLAPS

\* What is known of an entry's end: its marks in the table and on the way there.
Marks(e) == row[e] \cup writes[e]

\* An entry nobody has scheduled yet has left no trace.
Untouched(e) ==
  owner[e] = None => Marks(e) = {} /\ sent[e] = 0 /\ e \notin recovery.rows

\* Until the recovery is over, the memory is about entries scheduled since the start.
Forgotten(e) ==
  recovery.st # "done" /\ e \notin born => e \notin entries /\ sent[e] = 0 /\ writes[e] = {}

\* The rows the recovery has selected are still what it selected them for.
Selected(e) ==
  /\ e \in recovery.rows => recovery.st # "starts"
  /\ recovery.st = "read" /\ e \in recovery.rows \ born => Recoverable(e)

\* Only an entry still in memory, or a recurring one, may have been sent.
Unsent(e) ==
  ~TakenTwice(e) /\ e \notin Cron => sent[e] <= 1 /\ (e \in entries => sent[e] = 0)

\* Nothing in memory is cancelled.
Silent(e) == ~TakenTwice(e) /\ "cancelled" \in Marks(e) => e \notin entries

\* What no statement has ended or is ending.
Open(e) ==
  /\ "in" \in Marks(e) /\ "cancelled" \notin Marks(e)
  /\ e \in Cron \/ "fired" \notin Marks(e)

\* It is in memory, or the recovery will take it up, and nothing else is in memory.
Kept(e) ==
  e \notin parted /\ Open(e) =>
    \/ e \in entries
    \/ e \notin born /\ (recovery.st = "read" => e \in recovery.rows) /\ recovery.st # "done"
Backed(e) == e \notin parted /\ e \in entries /\ ~TakenTwice(e) => Open(e)

Entered(e) ==
  Untouched(e) /\ Forgotten(e) /\ Selected(e) /\ Unsent(e) /\ Silent(e) /\ Kept(e) /\ Backed(e)

IInv == TypeOK /\ \A e \in Entry : Entered(e)

-----------------------------------------------------------------------------
(* Steps.                                                                  *)

\* A broker's first start knows nothing.
LEMMA InitIInv == Init => IInv
<1> SUFFICES ASSUME Init PROVE IInv
  OBVIOUS
<1>1. TypeOK
  BY ScheduleAssumption DEF Init, TypeOK, ScheduleAssumption
<1>2. ASSUME NEW e \in Entry PROVE Entered(e)
  BY DEF Init, Entered, Untouched, Forgotten, Selected, Unsent, Silent, Kept, Backed,
     Open, Marks, TakenTwice
<1>3. QED
  BY <1>1, <1>2 DEF IInv

\* What is known of an entry depends on these.
LEMMA Frame ==
  ASSUME NEW e \in Entry, Entered(e),
         UNCHANGED <<entries, owner, row, writes, recovery, born, sent, parted>>
  PROVE  Entered(e)'
BY DEF Entered, Untouched, Forgotten, Selected, Unsent, Silent, Kept, Backed, Open, Marks,
   TakenTwice, Recoverable

\* Presences that come and go, and timers that fire into nothing.
LEMMA IdleStep ==
  ASSUME IInv,
         \/ \E p \in Pres : Join(p) \/ Leave(p)
         \/ \E e \in Entry, t \in Timer : FiresIntoNothing(e, t)
  PROVE  IInv'
<1>1. TypeOK'
  BY DEF IInv, TypeOK, Join, Leave, FiresIntoNothing
<1>2. ASSUME NEW e \in Entry PROVE Entered(e)'
  BY Frame DEF IInv, Join, Leave, FiresIntoNothing
<1>3. QED
  BY <1>1, <1>2 DEF IInv

\* A new entry is in memory and on its way to the table.
LEMMA ScheduleStep ==
  ASSUME IInv, NEW p \in Pres, NEW d \in Entry, ScheduleRequested(p, d)
  PROVE  IInv'
<1> USE DEF IInv, TypeOK, ScheduleRequested
<1>1. TypeOK'
  <2>1. owner' \in [Entry -> Pres \cup {None}] /\ handle' \in [Entry -> Timer \cup {None}]
    BY DEF Timer
  <2>2. timers' \in [Entry -> SUBSET Timer] /\ writes' \in [Entry -> SUBSET Mark]
    BY DEF Timer, Mark
  <2>3. \A e \in entries' : owner'[e] # None /\ handle'[e] # None
    BY ScheduleAssumption DEF ScheduleAssumption, Timer
  <2>4. QED
    BY <2>1, <2>2, <2>3
<1>2. ASSUME NEW e \in Entry PROVE Entered(e)'
  <2>1. CASE e = d
    BY <2>1, ScheduleAssumption DEF IInv, TypeOK, ScheduleRequested, ScheduleAssumption, Entered,
       Untouched, Forgotten, Selected, Unsent, Silent, Kept, Backed, Open, Marks, TakenTwice
  <2>2. CASE e # d
    BY <2>2 DEF IInv, TypeOK, ScheduleRequested, Entered, Untouched, Forgotten, Selected,
       Unsent, Silent, Kept, Backed, Open, Marks, TakenTwice, Recoverable
  <2>3. QED
    BY <2>1, <2>2
<1>3. QED
  BY <1>1, <1>2 DEF IInv

\* A cancelled one leaves the memory.
LEMMA CancelStep ==
  ASSUME IInv, NEW p \in Pres, NEW d \in Entry, CancelScheduled(p, d)
  PROVE  IInv'
<1>1. TypeOK'
  BY DEF IInv, TypeOK, CancelScheduled, Timer, Mark
<1>2. ASSUME NEW e \in Entry PROVE Entered(e)'
  <2>1. CASE e = d
    BY <2>1 DEF IInv, TypeOK, CancelScheduled, Entered, Untouched, Forgotten, Selected,
       Unsent, Silent, Kept, Backed, Open, Marks, TakenTwice, Recoverable
  <2>2. CASE e # d
    BY <2>2 DEF IInv, TypeOK, CancelScheduled, Entered, Untouched, Forgotten, Selected,
       Unsent, Silent, Kept, Backed, Open, Marks, TakenTwice, Recoverable
  <2>3. QED
    BY <2>1, <2>2
<1>3. QED
  BY <1>1, <1>2 DEF IInv

\* A firing sends at most once and is on its way to the table.
LEMMA FiresStep ==
  ASSUME IInv, NEW d \in Entry, NEW t \in Timer, NEW by, NEW next \in Timer,
         Fires(d, t, by, next)
  PROVE  IInv'
<1>1. /\ sent' \in [Entry -> 0..2]
      /\ \A e \in Entry \ {d} : sent'[e] = sent[e]
      /\ sent'[d] <= sent[d] + 1
  BY DEF IInv, TypeOK, Fires, Delivered
<1>2. TypeOK'
  <2>1. handle' \in [Entry -> Timer \cup {None}] /\ timers' \in [Entry -> SUBSET Timer]
    BY DEF IInv, TypeOK, Fires, Rearmed
  <2>2. \A e \in entries' : owner'[e] # None /\ handle'[e] # None
    BY ScheduleAssumption DEF ScheduleAssumption, IInv, TypeOK, Fires, Rearmed
  <2>3. writes' \in [Entry -> SUBSET Mark] /\ entries' \subseteq Entry
    BY DEF IInv, TypeOK, Fires, Rearmed, Mark
  <2>4. QED
    BY <1>1, <2>1, <2>2, <2>3 DEF IInv, TypeOK, Fires
<1>3. ASSUME NEW e \in Entry PROVE Entered(e)'
  <2>1. CASE e = d
    <3>1. /\ owner'[e] # None /\ row'[e] = row[e] /\ writes'[e] = writes[e] \cup {"fired"}
          /\ recovery' = recovery /\ born' = born /\ parted' = parted /\ e \in entries
      BY <2>1 DEF IInv, TypeOK, Fires
    <3>2. sent[e] \in 0..2 /\ sent'[e] \in 0..2 /\ sent'[e] <= sent[e] + 1
      BY <1>1, <2>1 DEF IInv, TypeOK
    <3>3. CASE e \in Cron
      <4>1. entries' = entries
        BY <2>1, <3>3 DEF Fires, Rearmed
      <4>2. QED
        BY <3>1, <3>3, <4>1 DEF IInv, Entered, Untouched, Forgotten, Selected, Unsent,
           Silent, Kept, Backed, Open, Marks, TakenTwice, Recoverable
    <3>4. CASE e \notin Cron
      <4>1. e \notin entries'
        BY <2>1, <3>4 DEF Fires, Rearmed
      <4>2. Unsent(e)'
        BY <3>1, <3>2, <3>4, <4>1 DEF IInv, Entered, Unsent, TakenTwice
      <4>3. QED
        BY <3>1, <3>4, <4>1, <4>2 DEF IInv, Entered, Untouched, Forgotten, Selected,
           Silent, Kept, Backed, Open, Marks, TakenTwice, Recoverable
    <3>5. QED
      BY <3>3, <3>4
  <2>2. CASE e # d
    BY <1>1, <2>2 DEF IInv, TypeOK, Fires, Rearmed, Entered, Untouched, Forgotten, Selected,
       Unsent, Silent, Kept, Backed, Open, Marks, TakenTwice, Recoverable
  <2>3. QED
    BY <2>1, <2>2
<1>4. QED
  BY <1>2, <1>3 DEF IInv

\* A statement that lands moves a mark into the row, or finds no row.
LEMMA WriteStep ==
  ASSUME IInv, NEW d \in Entry, NEW w \in Mark, WriteLands(d, w) \/ WriteFails(d, w)
  PROVE  IInv'
<1>1. TypeOK'
  BY DEF IInv, TypeOK, WriteLands, WriteFails, Mark
<1>2. ASSUME NEW e \in Entry PROVE Entered(e)'
  <2>1. CASE e = d
    BY <2>1 DEF IInv, TypeOK, WriteLands, WriteFails, Entered, Untouched, Forgotten, Selected,
       Unsent, Silent, Kept, Backed, Open, Marks, TakenTwice, Recoverable, Mark
  <2>2. CASE e # d
    BY <2>2 DEF IInv, TypeOK, WriteLands, WriteFails, Entered, Untouched, Forgotten, Selected,
       Unsent, Silent, Kept, Backed, Open, Marks, TakenTwice, Recoverable
  <2>3. QED
    BY <2>1, <2>2
<1>3. QED
  BY <1>1, <1>2 DEF IInv

\* What was under way is lost with the memory; only rows are left.
LEMMA RestartStep ==
  ASSUME IInv, Restart
  PROVE  IInv'
<1>1. TypeOK'
  BY ScheduleAssumption DEF IInv, TypeOK, Restart, ScheduleAssumption
<1>2. ASSUME NEW e \in Entry PROVE Entered(e)'
  BY <1>1 DEF IInv, TypeOK, Restart, Entered, Untouched, Forgotten, Selected, Unsent, Silent,
     Kept, Backed, Open, Marks, TakenTwice, Recoverable
<1>3. QED
  BY <1>1, <1>2 DEF IInv

\* An entry in memory that is selected was scheduled meanwhile.
LEMMA SelectStep ==
  ASSUME IInv, RowsSelected
  PROVE  IInv'
<1>1. TypeOK'
  BY DEF IInv, TypeOK, RowsSelected
<1>2. ASSUME NEW e \in Entry PROVE Entered(e)'
  BY DEF IInv, TypeOK, RowsSelected, Entered, Untouched, Forgotten, Selected, Unsent, Silent,
     Kept, Backed, Open, Marks, TakenTwice, Recoverable
<1>3. QED
  BY <1>1, <1>2 DEF IInv

\* What was selected comes back, and its presence is known.
LEMMA RecoverStep ==
  ASSUME IInv, Recovered
  PROVE  IInv'
<1>1. TypeOK'
  <2>1. handle' \in [Entry -> Timer \cup {None}] /\ timers' \in [Entry -> SUBSET Timer]
    BY DEF IInv, TypeOK, Recovered, Timer
  <2>2. \A e \in entries' : owner'[e] # None /\ handle'[e] # None
    BY ScheduleAssumption DEF ScheduleAssumption, IInv, TypeOK, Recovered, Timer, Entered,
       Untouched
  <2>3. recovery' \in [st : {"starts", "read", "done"}, rows : SUBSET Entry]
        /\ entries' \subseteq Entry
    BY DEF IInv, TypeOK, Recovered
  <2>4. QED
    BY <2>1, <2>2, <2>3 DEF IInv, TypeOK, Recovered
<1>2. ASSUME NEW e \in Entry PROVE Entered(e)'
  BY DEF IInv, TypeOK, Recovered, Entered, Untouched, Forgotten, Selected, Unsent, Silent,
     Kept, Backed, Open, Marks, TakenTwice, Recoverable
<1>3. QED
  BY <1>1, <1>2 DEF IInv

\* Every step keeps what is known of every entry.
LEMMA NextIInv == IInv /\ [Next]_vars => IInv'
<1> SUFFICES ASSUME IInv, [Next]_vars PROVE IInv'
  OBVIOUS
<1>1. CASE UNCHANGED vars
  <2>1. TypeOK'
    BY <1>1 DEF IInv, TypeOK, vars
  <2>2. ASSUME NEW e \in Entry PROVE Entered(e)'
    BY <1>1, Frame DEF IInv, vars
  <2>3. QED
    BY <2>1, <2>2 DEF IInv
<1>2. ASSUME NEW e \in Entry, TimerFires(e) PROVE IInv'
  BY <1>2, FiresStep, IdleStep DEF TimerFires, Timer
<1>3. QED
  BY <1>1, <1>2, IdleStep, ScheduleStep, CancelStep, WriteStep, RestartStep, SelectStep,
     RecoverStep DEF Next

-----------------------------------------------------------------------------
(* Theorems.                                                               *)

\* What the broker knows of every entry, and the table of it, holds after any steps.
THEOREM ScheduleInductive == Spec => []IInv
BY InitIInv, NextIInv, PTL DEF Spec

\* Entries and their timers agree in shape, whatever restarts and recoveries do.
THEOREM ScheduleTypes == Spec => []TypeOK
<1>1. IInv => TypeOK
  BY DEF IInv
<1>2. QED
  BY <1>1, ScheduleInductive, PTL

\* A one-shot leaves the memory when it is sent, and the recovery does not bring it back
\* in the life of the same broker.
THEOREM ScheduleOneShot == Spec => []OneShotOnce
<1>1. IInv => OneShotOnce
  BY DEF IInv, OneShotOnce, Entered, Unsent
<1>2. QED
  BY <1>1, ScheduleInductive, PTL

\* The table and the memory are about the same messages.
THEOREM ScheduleRows == Spec => []RowsMatchEntries
<1>1. ASSUME IInv, recovery.st = "done", NEW e \in Entry \ parted
      PROVE  /\ Recoverable(e) => e \in entries \/ writes[e] \cap {"fired", "cancelled"} # {}
             /\ e \in entries /\ ~TakenTwice(e) => Recoverable(e) \/ writes[e] # {}
  BY <1>1 DEF IInv, Entered, Kept, Backed, Open, Marks, Recoverable
<1>2. IInv => RowsMatchEntries
  BY <1>1 DEF RowsMatchEntries
<1>3. QED
  BY <1>2, ScheduleInductive, PTL

\* Only what is in memory is sent, and nothing that is cancelled is in memory.
THEOREM ScheduleSilent == Spec => CancelledIsSilent
<1> DEFINE Quiet == \A e \in Entry : "cancelled" \in row[e] \cup writes[e] /\ ~TakenTwice(e)
                                       => sent'[e] <= sent[e]
<1>1. ASSUME IInv, [Next]_vars, NEW e \in Entry,
             "cancelled" \in row[e] \cup writes[e], ~TakenTwice(e)
      PROVE  sent'[e] <= sent[e]
  <2>1. sent[e] \in 0..2 /\ e \notin entries
    BY <1>1 DEF IInv, TypeOK, Entered, Silent, Marks
  <2>2. ASSUME NEW d \in Entry, TimerFires(d) PROVE sent'[e] <= sent[e]
    <3>1. ASSUME NEW t, NEW by, NEW next, Fires(d, t, by, next) PROVE sent'[e] <= sent[e]
      BY <1>1, <2>1, <3>1 DEF Fires, Delivered, IInv, TypeOK
    <3>2. QED
      BY <2>1, <2>2, <3>1 DEF TimerFires, FiresIntoNothing
  <2>3. CASE Restart
    BY <2>1, <2>3 DEF Restart
  <2>4. QED
    BY <1>1, <2>1, <2>2, <2>3 DEF Next, vars, Join, Leave, ScheduleRequested,
       CancelScheduled, WriteLands, WriteFails, RowsSelected, Recovered
<1>2. IInv /\ [Next]_vars => [Quiet]_vars
  BY <1>1
<1>3. QED
  BY <1>2, ScheduleInductive, PTL DEF Spec, CancelledIsSilent
=============================================================================
