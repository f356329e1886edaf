--------------------------- MODULE SummaryScheduler ---------------------------
(***************************************************************************)
(* The scheduled summary mails: ZilliousScheduler runs one job per cron    *)
(* tick (never two at a time: <task:annotation-driven/> has one thread),   *)
(* and table schedular_email tells it whether today's mails are out.       *)
(*                                                                         *)
(*   check       isSendEmail reads the last row                            *)
(*   summarise   getSchedularEmailSummaryForUsers builds one mail per user *)
(*               there is something to say to                              *)
(*   send        EmailSender.sendEmail, one mail after another; it catches *)
(*               every exception itself                                    *)
(*   record      addEmail adds a row with today's date                     *)
(***************************************************************************)
EXTENDS Naturals

CONSTANTS
    Users,      \* active users
    YearDays,   \* days after which a dd-MM date comes again
    MaxDay,     \* bound on the days looked at
    MaxFaults,  \* bound on the faults of one day
    NoEntry     \* table schedular_email is empty

ASSUME SchedulerAssumption ==
    /\ YearDays \in Nat \ {0}
    /\ MaxDay \in Nat
    /\ MaxFaults \in Nat

VARIABLES
    today,
    due,        \* users a summary made now has something to say to
    last,       \* the row of schedular_email with the largest id
    job,        \* the running job
    delivered,  \* summaries each user got since midnight
    faults      \* crashes and database errors since midnight

vars == <<today, due, last, job, delivered, faults>>

Entry == [date : 0 .. MaxDay, status : {"Y", "N"}]

Phase == {"idle", "checked", "sending", "unrecorded"}

\* queue: the mails still to send; lost: the mail server refused one of them.
Job == [phase : Phase, queue : SUBSET Users, lost : BOOLEAN]
Idle == [phase |-> "idle", queue |-> {}, lost |-> FALSE]

ASSUME NoEntryAssumption == NoEntry \notin Entry

TypeOK ==
    /\ today \in 0 .. MaxDay
    /\ due \subseteq Users
    /\ last \in Entry \cup {NoEntry}
    /\ job \in Job
    /\ delivered \in [Users -> 0 .. MaxFaults + 1]
    /\ faults \in 0 .. MaxFaults

Init ==
    /\ today = 0
    /\ due \in SUBSET Users
    /\ last = NoEntry
    /\ job = Idle
    /\ delivered = [u \in Users |-> 0]
    /\ faults = 0

\* A crash or a database error, of which a day sees MaxFaults at most.
Fault == faults < MaxFaults /\ faults' = faults + 1

-----------------------------------------------------------------------------
(* The job.                                                                *)

\* DateUtility.getDateInDDMMDash: dates are compared without their year.
IsToday(date) == date % YearDays = today % YearDays

\* Mutant: any row with today's date will do, 'N' too.
IsMailOutAnyStatus == last # NoEntry /\ IsToday(last.date)

\* What isSendEmail finds in the last row (it answers the opposite).
IsMailOut ==
    /\ last # NoEntry
    /\ IsToday(last.date)
    /\ last.status = "Y"

\* A tick that finds the mails of today sent does nothing.  When the row
\* cannot be read getTheLastEmail returns null, as for an empty table.
Check ==
    /\ job.phase = "idle"
    /\ job' = [job EXCEPT !.phase = "checked"]
    /\ \/ ~ IsMailOut /\ UNCHANGED faults
       \/ Fault
    /\ UNCHANGED <<today, due, last, delivered>>

\* Without mails the job ends and leaves no row; an exception here is not
\* caught and ends it too.
Summarise ==
    /\ job.phase = "checked"
    /\ \/ /\ job' = IF due = {} THEN Idle
                    ELSE [phase |-> "sending", queue |-> due, lost |-> FALSE]
          /\ UNCHANGED faults
       \/ job' = Idle /\ Fault
    /\ UNCHANGED <<today, due, last, delivered>>

\* Mutant: a mail that was accepted stays queued for another try.
SendAtLeastOnce(u) ==
    /\ job.phase = "sending" /\ u \in job.queue
    /\ \E rest \in {job.queue, job.queue \ {u}} : job' = [job EXCEPT !.queue = rest]
    /\ delivered' = [delivered EXCEPT ![u] = @ + 1]
    /\ UNCHANGED <<today, due, last, faults>>

\* sendEmail for user u.  A mail the server refuses is only logged.
Send(u) ==
    /\ job.phase = "sending" /\ u \in job.queue
    /\ \/ /\ job' = [job EXCEPT !.queue = @ \ {u}]
          /\ delivered' = [delivered EXCEPT ![u] = @ + 1]
       \/ /\ job' = [job EXCEPT !.queue = @ \ {u}, !.lost = TRUE]
          /\ UNCHANGED delivered
    /\ UNCHANGED <<today, due, last, faults>>

\* Mutant: the row carries the date of the day before.
RecordYesterday ==
    /\ job.phase = "sending" /\ job.queue = {}
    /\ last' = [date |-> IF today = 0 THEN 0 ELSE today - 1, status |-> "Y"]
    /\ job' = Idle
    /\ UNCHANGED <<today, due, delivered, faults>>

\* addEmail(true).  An insert that fails is logged and forgotten; when the
\* transaction itself fails (before or after it reached the table) the
\* exception goes to the catch branch of the scheduler.
Record ==
    /\ job.phase = "sending" /\ job.queue = {}
    /\ \/ /\ last' = [date |-> today, status |-> "Y"]
          /\ job' = Idle
          /\ UNCHANGED faults
       \/ UNCHANGED last /\ job' = Idle /\ Fault
       \/ /\ last' \in {last, [date |-> today, status |-> "Y"]}
          /\ job' = [job EXCEPT !.phase = "unrecorded"]
          /\ Fault
    /\ UNCHANGED <<today, due, delivered>>

\* addEmail(false), the catch branch; it may fail like the first one.
RecordFailure ==
    /\ job.phase = "unrecorded"
    /\ last' \in {last, [date |-> today, status |-> "N"]}
    /\ job' = Idle
    /\ UNCHANGED <<today, due, delivered, faults>>

-----------------------------------------------------------------------------
(* Around the job.                                                         *)

\* The server dies within a job and starts again.
Crash ==
    /\ job.phase # "idle"
    /\ job' = Idle
    /\ Fault
    /\ UNCHANGED <<today, due, last, delivered>>

Midnight ==
    /\ today < MaxDay
    /\ today' = today + 1
    /\ delivered' = [u \in Users |-> 0]
    /\ faults' = 0
    /\ UNCHANGED <<due, last, job>>

\* Leave requests and birthdays come and go.
DueChanges ==
    /\ due' \in SUBSET Users
    /\ UNCHANGED <<today, last, job, delivered, faults>>

-----------------------------------------------------------------------------
JobStep == Check \/ Summarise \/ (\E u \in Users : Send(u)) \/ Record \/ RecordFailure

Next == JobStep \/ Crash \/ Midnight \/ DueChanges

\* The cron expression fires again and again, and a job that has started goes
\* on unless the server dies.
Spec == Init /\ [][Next]_vars /\ WF_vars(JobStep)

-----------------------------------------------------------------------------
\* A user gets a second summary of a day only through a fault of that day:
\* the row read before and written after the sending keeps the ticks apart,
\* over midnight, retries and 'N' rows too.
DuplicatesAreFaults == \A u \in Users : delivered[u] <= 1 + faults

\* As long as there is something to say the job does not give up: in the end
\* a day that lasts is recorded as mailed, whatever failed before.
DueIsMailed ==
    <>[](due # {}) => <>[](/\ last # NoEntry
                           /\ last.status = "Y" /\ IsToday(last.date))

\* "add entry for not being able to send email successfully to database".
FailureIsRecorded ==
    [][job.lost /\ last' # last => last'.status = "N"]_vars

=============================================================================
