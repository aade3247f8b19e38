---------------------------- MODULE UpdateCheck -----------------------------
(***************************************************************************)
(* The cadence of the update notice: UpdateNotice::check_due and           *)
(* record_check (rfc011.rs 74-98) and the launch that calls them           *)
(* (main.rs 893-922).  The clock counts fractions of an hour, the stamp    *)
(* whole hours; launches follow one another and end at any time, the clock *)
(* may be set back, and a wipe removes the stamp (rfc011.rs 229).          *)
(***************************************************************************)
EXTENDS Integers

CONSTANTS UPDATE_CHECK_INTERVAL_HOURS,   \* 24 in the code
          PerHour,    \* steps of the clock in an hour
          Word,       \* the stamp and the difference are numbers modulo this
          Latest,     \* bound: the last reading of the clock
          SetBacks    \* bound: how often the clock may be set back

NoStamp == -1
Never == -1
Day == UPDATE_CHECK_INTERVAL_HOURS * PerHour

ASSUME UpdateAssumption ==
    /\ UPDATE_CHECK_INTERVAL_HOURS \in Nat \ {0} /\ PerHour \in Nat \ {0}
    /\ Latest \in Nat /\ SetBacks \in Nat /\ Word \in Nat
    /\ Word >= Latest \div PerHour + UPDATE_CHECK_INTERVAL_HOURS

VARIABLES
    clock,        \* the wall clock
    stamp,        \* last_update_check; NoStamp: absent, cut short or not a number
    task,         \* the program and its update task
    dir,          \* the state directory of this launch, "state" or "/tmp"
    unread,       \* history: could this launch not read the stamp?
    recorded_at,  \* history: the clock at the last record_check since it was set
    fetched_at,   \* history: the clock at the last fetch since it was set
    backs         \* settings of the clock left

histories == << recorded_at, fetched_at >>
updateVars == << clock, stamp, task, dir, unread, histories, backs >>

now_unix_hours == clock \div PerHour

UpdateInit ==
    /\ clock \in 0 .. Latest
    /\ stamp \in {NoStamp} \cup {h \in 0 .. Latest \div PerHour : h <= clock \div PerHour}
    /\ task = "off" /\ dir = "state" /\ unread = FALSE
    /\ recorded_at = Never /\ fetched_at = Never
    /\ backs = SetBacks

\* A difference that stops at zero (variant of CheckDue).
CheckDueSaturating(err) ==
    err \/ stamp = NoStamp \/ now_unix_hours >= stamp + UPDATE_CHECK_INTERVAL_HOURS

\* An interval one hour short (variant of CheckDue).
CheckDueEarly(err) ==
    \/ err \/ stamp = NoStamp
    \/ (now_unix_hours - stamp) % Word >= UPDATE_CHECK_INTERVAL_HOURS - 1

\* check_due: the subtraction is u64's, and wraps in a release build; a stamp
\* that is there but cannot be read (err) makes a check due as well.
CheckDue(err) ==
    \/ err \/ stamp = NoStamp
    \/ (now_unix_hours - stamp) % Word >= UPDATE_CHECK_INTERVAL_HOURS

Runs(due) == IF due THEN "fetching" ELSE "idle"

\* The record before the fetch (variant of Launch).
LaunchRecords ==
    /\ task = "off" /\ dir' = "state"
    /\ \E err \in BOOLEAN :
         /\ unread' = err /\ task' = Runs(CheckDue(err))
         /\ IF CheckDue(err) THEN stamp' = now_unix_hours /\ recorded_at' = clock
            ELSE UNCHANGED << stamp, recorded_at >>
    /\ UNCHANGED << clock, fetched_at, backs >>

\* A launch without a state directory goes by a stamp of /tmp, of which the
\* model says nothing.
Launch ==
    /\ task = "off"
    /\ \/ /\ dir' = "state"
          /\ \E err \in BOOLEAN : unread' = err /\ task' = Runs(CheckDue(err))
       \/ /\ dir' = "/tmp" /\ UNCHANGED unread
          /\ \E due \in BOOLEAN : task' = Runs(due)
    /\ UNCHANGED << clock, stamp, histories, backs >>

\* UpdateNotice::fetch comes back, with an answer or without.
Fetch ==
    /\ task = "fetching"
    /\ task' = "fetched"
    /\ fetched_at' = clock
    /\ UNCHANGED << clock, stamp, dir, unread, recorded_at, backs >>

\* record_check, which ignores a write that fails: it may leave the stamp as it
\* was, or truncated.
RecordCheck ==
    /\ task = "fetched"
    /\ task' = "idle"
    /\ \/ dir = "state" /\ stamp' = now_unix_hours /\ recorded_at' = clock
       \/ dir = "state" /\ stamp' = NoStamp /\ UNCHANGED recorded_at
       \/ UNCHANGED << stamp, recorded_at >>
    /\ UNCHANGED << clock, dir, unread, fetched_at, backs >>

\* forensic_wipe overwrites and removes the stamp of the launch's directory.
Wipe ==
    /\ task # "off" /\ dir = "state"
    /\ stamp' = NoStamp
    /\ UNCHANGED << clock, task, dir, unread, histories, backs >>

Quit ==
    /\ task # "off"
    /\ task' = "off"
    /\ UNCHANGED << clock, stamp, dir, unread, histories, backs >>

Tick ==
    /\ clock < Latest
    /\ clock' = clock + 1
    /\ UNCHANGED << stamp, task, dir, unread, histories, backs >>

\* The history of a clock that has been set back tells nothing any more, but
\* for a fetch that has just come back.
SetBack ==
    /\ backs > 0 /\ clock > 0
    /\ clock' \in 0 .. clock - 1
    /\ backs' = backs - 1
    /\ recorded_at' = Never
    /\ fetched_at' = IF task = "fetched" THEN clock' ELSE Never
    /\ UNCHANGED << stamp, task, dir, unread >>

UpdateNext == Launch \/ Fetch \/ RecordCheck \/ Wipe \/ Quit \/ Tick \/ SetBack

UpdateSpec == UpdateInit /\ [][UpdateNext]_updateVars
-----------------------------------------------------------------------------
Starts == task = "off" /\ task' = "fetching"

\* SAFETY.  Over any launches and ends of the program, a check starts more
\* than an interval less one hour after the last one that was recorded, unless
\* that record is lost, to a wipe (rfc011.rs 229) or a write that failed (89), or
\* this launch could not read it (83) or had no state directory (main.rs 895).
ChecksAreAlmostADayApart ==
    [][(Starts /\ dir' = "state" /\ ~unread' /\ stamp # NoStamp /\ recorded_at # Never)
         => clock - recorded_at > Day - PerHour]_updateVars

\* SAFETY.  A day after the last recorded check every launch checks again; and
\* a clock that was wrong and is set back never silences the notice: a stamp
\* from the future makes a check due.
DueAfterADay ==
    (recorded_at # Never /\ clock - recorded_at >= Day) \/ stamp > now_unix_hours
    => \A err \in BOOLEAN : CheckDue(err)

\* SAFETY.  What silences the notice is a fetch that came back: a program that
\* ends before its check has an answer, or the lack of one, leaves no record of
\* it (main.rs 905-909), however often it is launched.
RecordedIsFetched ==
    recorded_at # Never => fetched_at # Never /\ fetched_at <= clock

\* SAFETY.  At least 24 hours lie between checks (rfc011.rs 19).
ChecksAreADayApart ==
    [][Starts /\ recorded_at # Never => clock - recorded_at >= Day]_updateVars

\* SAFETY.  And between the fetches themselves, to an hour (rfc011.rs 19).
FetchesAreAlmostADayApart ==
    [][(task = "fetching" /\ task' = "fetched" /\ fetched_at # Never)
         => clock - fetched_at > Day - PerHour]_updateVars
-----------------------------------------------------------------------------
(* The inductive invariant behind them: the stamp, if there is one, is the    *)
(* hour of the last record there was.                                         *)
UpdateInv ==
    /\ clock \in 0 .. Latest
    /\ stamp \in {NoStamp} \cup 0 .. Latest \div PerHour
    /\ fetched_at # Never => fetched_at \in 0 .. clock
    /\ task = "fetched" => fetched_at # Never
    /\ recorded_at # Never => /\ recorded_at \in 0 .. clock
                              /\ stamp \in {NoStamp, recorded_at \div PerHour}
                              /\ fetched_at # Never
=============================================================================
