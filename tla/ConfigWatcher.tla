----------------------------- MODULE ConfigWatcher -----------------------------
(***************************************************************************)
(* Hot reload: the program reads its configuration file, starts watching   *)
(* its directory, and reloads it when it changed (internal/config/         *)
(* watcher.go; cmd/chaosproxy/main.go starts it and supplies apply).       *)
(*                                                                         *)
(* An editor saves the file at any time.  Each save is one change that     *)
(* fsnotify reports; saving by truncating and writing, or by renaming and  *)
(* creating, is two of them, with a content in between that does not       *)
(* parse.  The queue of fsnotify is assumed not to overflow.               *)
(*                                                                         *)
(* A content tells whether the file can be read and parsed, whether what   *)
(* Validate says of anything but the target holds, and whether it has a    *)
(* valid target; --target gives one to a file that has none.  The version  *)
(* of a file is the number of its saves.                                   *)
(***************************************************************************)
EXTENDS Integers, Sequences

CONSTANTS
    Contents,     \* what the file may hold
    TargetFlag,   \* the program runs with --target
    None,
    MaxSaves      \* bound: saves of the file and of its neighbours

ASSUME ContentsAssumption ==
    /\ \A c \in Contents : {c.parses, c.sound, c.target} \subseteq BOOLEAN
    /\ None \notin [content : Contents, version : Nat]

ASSUME TargetFlagAssumption == TargetFlag \in BOOLEAN

ASSUME BoundAssumption == MaxSaves \in Nat

VARIABLES
    file,         \* the content of the file and its version
    pc,           \* where main, and then Run, is
    queue,        \* the changes fsnotify has not delivered yet
    timer,        \* "stopped", "running" or "expired"
    armed,        \* timerChannel is not nil
    candidate,    \* the file as reload read it
    active,       \* the version in force
    cancelled,    \* Run's context
    (* History, read by the properties only. *)
    blind,        \* the version of the file when its directory became watched
    seen          \* the version that was read last

watcherVars ==
    <<file, pc, queue, timer, armed, candidate, active, cancelled, blind, seen>>

Files == [content : Contents, version : Nat]
Watched == pc \notin {"start", "returned"}

\* What Validate says of a file that parses.
Valid(c) == c.parses /\ c.sound /\ c.target

\* What resolveConfig and NewHandler say: applyOverrides comes before Validate.
Acceptable(c) == c.parses /\ c.sound /\ (c.target \/ TargetFlag)

-------------------------------------------------------------------------------
\* main has loaded the file and made the handler, or has ended with an error.
Init ==
    /\ file \in {f \in [content : Contents, version : {0}] : Acceptable(f.content)}
    /\ pc = "start"
    /\ queue = <<>>
    /\ timer = "stopped"
    /\ armed = FALSE
    /\ candidate = None
    /\ active = 0
    /\ cancelled = FALSE
    /\ blind = 0
    /\ seen = 0

(* The editor, the clock and the signal.                                   *)

Notify(change) ==
    queue' = IF Watched THEN Append(queue, change) ELSE queue

Save ==
    /\ file.version < MaxSaves
    /\ \E c \in Contents : file' = [content |-> c, version |-> file.version + 1]
    /\ Notify("relevant")
    /\ UNCHANGED <<pc, timer, armed, candidate, active, cancelled, blind, seen>>

\* A neighbour is saved, or the file's mode changes.
Touch ==
    /\ Watched
    /\ Len(queue) < MaxSaves
    /\ Notify("other")
    /\ UNCHANGED <<file, pc, timer, armed, candidate, active, cancelled, blind, seen>>

Expire ==
    /\ timer = "running"
    /\ timer' = "expired"
    /\ UNCHANGED <<file, pc, queue, armed, candidate, active, cancelled, blind, seen>>

Cancel ==
    /\ ~cancelled
    /\ cancelled' = TRUE
    /\ UNCHANGED <<file, pc, queue, timer, armed, candidate, active, blind, seen>>

(* NewWatcher and Run.                                                     *)

NewWatcher ==
    /\ pc = "start"
    /\ pc' = "select"
    /\ blind' = file.version
    /\ UNCHANGED <<file, queue, timer, armed, candidate, active, cancelled, seen>>

\* Mutant of HandleEvent: the channel is set when the timer is made, not later.
HandleEventArmsOnce ==
    /\ pc = "select"
    /\ queue # <<>>
    /\ queue' = Tail(queue)
    /\ IF Head(queue) = "relevant"
       THEN timer' = "running" /\ armed' = (armed \/ seen = 0)
       ELSE UNCHANGED <<timer, armed>>
    /\ UNCHANGED <<file, pc, candidate, active, cancelled, blind, seen>>

\* The case for an event.  Stop and Reset leave no earlier expiry behind.
HandleEvent ==
    /\ pc = "select"
    /\ queue # <<>>
    /\ queue' = Tail(queue)
    /\ IF Head(queue) = "relevant"
       THEN timer' = "running" /\ armed' = TRUE
       ELSE UNCHANGED <<timer, armed>>
    /\ UNCHANGED <<file, pc, candidate, active, cancelled, blind, seen>>

\* The case for the timer: reload begins.
Fire ==
    /\ pc = "select"
    /\ armed
    /\ timer = "expired"
    /\ timer' = "stopped"
    /\ armed' = FALSE
    /\ pc' = "load"
    /\ UNCHANGED <<file, queue, candidate, active, cancelled, blind, seen>>

Load ==
    /\ pc = "load"
    /\ candidate' = file
    /\ seen' = file.version
    /\ pc' = "apply"
    /\ UNCHANGED <<file, queue, timer, armed, active, cancelled, blind>>

\* Mutant of Apply: what was parsed is applied without validation.
ApplyUnvalidated ==
    /\ pc = "apply"
    /\ active' = IF candidate.content.parses THEN candidate.version ELSE active
    /\ candidate' = None
    /\ pc' = "select"
    /\ UNCHANGED <<file, queue, timer, armed, cancelled, blind, seen>>

\* The rest of reload.  apply sets the target and calls Update, which accepts
\* what Validate accepts.
Apply ==
    /\ pc = "apply"
    /\ active' = IF Valid(candidate.content) THEN candidate.version ELSE active
    /\ candidate' = None
    /\ pc' = "select"
    /\ UNCHANGED <<file, queue, timer, armed, cancelled, blind, seen>>

\* The case for the context; Close ends the watch.
Return ==
    /\ pc = "select"
    /\ cancelled
    /\ pc' = "returned"
    /\ queue' = <<>>
    /\ timer' = "stopped"
    /\ UNCHANGED <<file, armed, candidate, active, cancelled, blind, seen>>

Next ==
    \/ Save
    \/ Touch
    \/ Expire
    \/ Cancel
    \/ NewWatcher
    \/ HandleEvent
    \/ Fire
    \/ Load
    \/ Apply
    \/ Return

Spec == Init /\ [][Next]_watcherVars

\* The clock ticks, the goroutine runs, and a case of its select that stays
\* ready is taken some day; it is not assumed to be taken first.
Fairness ==
    /\ WF_watcherVars(Expire)
    /\ WF_watcherVars(NewWatcher)
    /\ WF_watcherVars(HandleEvent)
    /\ WF_watcherVars(Fire)
    /\ WF_watcherVars(Load)
    /\ WF_watcherVars(Apply)
    /\ WF_watcherVars(Return)

FairSpec == Spec /\ Fairness

-------------------------------------------------------------------------------
(* Properties.                                                             *)

\* Types; the timer is waited for exactly when it was started, and reload holds
\* a candidate exactly while it applies it.
TypeOK ==
    /\ file \in Files
    /\ pc \in {"start", "select", "load", "apply", "returned"}
    /\ queue \in Seq({"relevant", "other"})
    /\ timer \in {"stopped", "running", "expired"}
    /\ armed \in BOOLEAN
    /\ candidate \in Files \cup {None}
    /\ active \in 0 .. file.version
    /\ cancelled \in BOOLEAN
    /\ blind \in 0 .. file.version
    /\ seen \in 0 .. file.version
    /\ pc # "returned" => (armed <=> timer # "stopped")
    /\ pc = "apply" <=> candidate # None

\* A save made while the directory is watched is never forgotten: until the
\* file is read again, its change is in the queue, or the timer is running for
\* it, or reload is about to read.  A violation needs a save between the steps
\* of a reload, or a second reload.
NoSaveIsForgotten ==
    Watched /\ seen < file.version /\ file.version > blind =>
        \/ \E i \in DOMAIN queue : queue[i] = "relevant"
        \/ armed
        \/ pc = "load"

\* "An invalid edit is logged and the last valid configuration stays active"
\* (README.md:200): what comes into force was read from the file after what it
\* replaces, and is valid; once Run has returned nothing does.
OnlyNewerValidEditsAreApplied ==
    [][active' # active =>
          /\ active' > active
          /\ candidate # None /\ candidate.version = active'
          /\ Valid(candidate.content)
          /\ pc # "returned"
      ]_watcherVars

\* "Saved edits are applied after a 200ms debounce" (README.md:199): a valid
\* file saved while its directory is watched comes into force, whatever bursts
\* of saves and changes of other files precede it.
SavedEditsAreApplied ==
    (Watched /\ Valid(file.content) /\ file.version > blind)
        ~> (active = file.version \/ ~Valid(file.content) \/ cancelled)

\* The same of every file the program would start with; the flag --config is
\* documented as "YAML configuration file, reloaded on change" (README.md:156)
\* and --target as overriding the file's (README.md:157).  Refuted: reload
\* validates the file before apply sets the target.
AcceptableEditsAreApplied ==
    (Watched /\ Acceptable(file.content) /\ file.version > blind)
        ~> (active = file.version \/ ~Acceptable(file.content) \/ cancelled)

==============================================================================
