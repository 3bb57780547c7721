---------------------------- MODULE UpdateStaging ----------------------------
(***************************************************************************)
(* Staging an update on Windows (update_staging_lifecycle_coordinator.dart *)
(* over updater_staging.cpp): the download into a partial file, its import *)
(* as an installer, the one persisted record that recovery goes by, the    *)
(* cleanup of what earlier attempts left, and the hand-over to the system  *)
(* installer.  The process may die, and a call may fail, at any step.      *)
(*                                                                         *)
(* The native side says that a file is not there also when it cannot open  *)
(* it, ask about it or hash it, and leaves such a file out of a listing:   *)
(* a file is misread then.                                                 *)
(*                                                                         *)
(* A download is a number; its files carry a name nobody used before.  One *)
(* lock makes stage, recoverThenCheck and apply exclude each other; nobody *)
(* else writes in the directory, and the signed manifest in the record     *)
(* stays valid.                                                            *)
(***************************************************************************)
EXTENDS Naturals, FiniteSets

CONSTANTS
  Versions,      \* versions published
  MaxDownloads,
  MaxFaults,     \* calls that fail, or misread a file
  MaxCrashes

ASSUME StagingAssumption ==
  /\ Versions \subseteq Nat \ {0}
  /\ MaxDownloads \in Nat /\ MaxFaults \in Nat /\ MaxCrashes \in Nat

VARIABLES
  part,       \* what the partial file of each download holds
  final,      \* the downloads whose installer is in the directory
  age,        \* of each file: fresh, over a day, over 7 days, over 30 days
  version,    \* of each download
  record,     \* the persisted metadata: a download and its life cycle
  session,    \* partial files the native side holds open
  step,       \* where the operation that has the lock stands
  current,    \* the download it is about
  doomed,     \* files its cleanup is still going to delete
  then,       \* the step behind the cleanup
  offered,    \* the update the user is offered to install, 0 if there is none
  open,       \* is the app running?
  checked,    \* has it looked for staged updates since it was started?
  handed,     \* the installer handed over to the system
  installed,  \* the version installed
  misread,    \* history: the downloads of which a file was misread
  downloads, faults, crashes

files == <<part, final, age, version>>
app == <<offered, open, checked, handed, installed>>
limits == <<misread, downloads, faults, crashes>>
vars == <<files, record, session, step, current, doomed, then, app, limits>>

Downloads == 1 .. MaxDownloads
NoRecord == [download |-> 0, stage |-> "none"]

TypeOK ==
  /\ part \in [Downloads -> {"none", "other", "whole", "deleting"}]
  /\ final \subseteq Downloads
  /\ \A d \in final : part[d] = "none"
  /\ age \in [Downloads -> 0 .. 3]
  /\ version \in [Downloads -> Versions \cup {0}]
  /\ record \in {NoRecord} \cup
       [download : Downloads,
        stage : {"downloading", "finalizing", "verified", "handoffStarted"}]
  /\ session \subseteq Downloads
  /\ step \in {"idle", "listing", "cleaning", "unrecording", "starting",
               "opening", "receiving", "aborting", "finalizing", "importing",
               "saving", "settling", "removing", "forgetting", "rechecking",
               "answering", "launching"}
  /\ current \in Downloads \cup {0}
  /\ doomed \subseteq Downloads
  /\ then \in {"starting", "rechecking", "answering"}
  /\ offered \in Downloads \cup {0} /\ handed \in Downloads \cup {0}
  /\ open \in BOOLEAN /\ checked \in BOOLEAN
  /\ installed \in Versions \cup {0}
  /\ misread \subseteq Downloads
  /\ downloads \in 0 .. MaxDownloads
  /\ faults \in 0 .. MaxFaults /\ crashes \in 0 .. MaxCrashes

Init ==
  /\ part = [d \in Downloads |-> "none"] /\ final = {}
  /\ age = [d \in Downloads |-> 0] /\ version = [d \in Downloads |-> 0]
  /\ record = NoRecord /\ session = {}
  /\ step = "idle" /\ current = 0 /\ doomed = {} /\ then = "answering"
  /\ offered = 0 /\ open = TRUE /\ checked = FALSE
  /\ handed = 0 /\ installed = 0
  /\ misread = {} /\ downloads = 0 /\ faults = 0 /\ crashes = 0

\* The operation goes on, or is over.
Goes(next) ==
  /\ step' = next
  /\ IF next = "idle" THEN current' = 0 /\ doomed' = {} /\ then' = "answering"
     ELSE UNCHANGED <<current, doomed, then>>

-----------------------------------------------------------------------------
(* What the native side says of files.                                     *)

\* An open partial file that is deleted goes when its session does, and cannot be
\* opened meanwhile.
Parts == {d \in Downloads : part[d] \notin {"none", "deleting"}}

Misread(D) ==
  /\ faults < MaxFaults /\ faults' = faults + 1
  /\ misread' = misread \cup D

\* verifyUpdate's answer about a file of d that is there, or not.
Looked(d, there, found) ==
  \/ found = there /\ UNCHANGED <<faults, misread>>
  \/ there /\ ~found /\ Misread({d})

\* safeList's answer.
Listed(listed) ==
  \/ listed = Parts \cup final /\ UNCHANGED <<faults, misread>>
  \/ listed # Parts \cup final /\ Misread((Parts \cup final) \ listed)

\* The installer of the record is there, with the size and the hash the signed
\* manifest gives.
Verified(r) == r.download \in final

-----------------------------------------------------------------------------
(* Cleanup of the directory (_cleanup).  Later downloads have newer files. *)

Newer(d, D) == {e \in D : e > d}

\* Mutant of OldParts: a partial file of the day is kept whatever there is.
DayOldParts(listed) == {d \in Parts \cap listed : age[d] >= 1}

\* Only the newest partial file is kept, for a day.
OldParts(listed) ==
  {d \in Parts \cap listed : age[d] >= 1 \/ Newer(d, Parts \cap listed) # {}}

\* Mutant of Protected: the cleanup is told of no installer to keep.
NoneProtected == 0

\* The installer that is offered again, or that recovery has found.
Protected == IF then = "starting" THEN 0 ELSE current

\* Mutant of OldFinals: the protected installer has no longer term of its own.
WeekOldFinals(listed) ==
  LET others == {d \in (final \cap listed) \ {Protected} : age[d] < 2} IN
    {d \in final \cap listed :
       \/ age[d] >= 2
       \/ d # Protected /\ Cardinality(Newer(d, others)) >= 2}

\* Two installers are kept, for a week; the protected one is one of them and
\* kept for 30 days.
OldFinals(listed) ==
  LET others == {d \in (final \cap listed) \ {Protected} : age[d] < 2}
      room == IF Protected = 0 THEN 2 ELSE 1 IN
    {d \in final \cap listed :
       IF d = Protected THEN age[d] >= 3
       ELSE age[d] >= 2 \/ Cardinality(Newer(d, others)) >= room}

Clean(next) == step' = "listing" /\ then' = next /\ UNCHANGED doomed

List ==
  /\ step = "listing" /\ step' = "cleaning"
  /\ \E listed \in SUBSET (Parts \cup final) :
       Listed(listed) /\ doomed' = OldParts(listed) \cup OldFinals(listed)
  /\ UNCHANGED <<files, record, session, current, then, app, downloads, crashes>>

\* Partial files are deleted first, and the newest first.
Precedes(e, d) == IF (e \in final) = (d \in final) THEN e > d ELSE d \in final

NextDoomed(d) == d \in doomed /\ \A e \in doomed : ~Precedes(e, d)

Gone(d) ==
  /\ part' = [part EXCEPT ![d] = IF d \in Parts \cap session THEN "deleting" ELSE "none"]
  /\ final' = final \ {d}

\* A misread file is passed over.  A protected installer takes its record with it,
\* deleted or not.
Delete(d) ==
  /\ step = "cleaning" /\ NextDoomed(d)
  /\ \E found \in BOOLEAN :
       /\ Looked(d, TRUE, found)
       /\ IF found THEN Gone(d) ELSE UNCHANGED <<part, final>>
  /\ doomed' = doomed \ {d}
  /\ step' = IF d = current /\ d \in final THEN "unrecording" ELSE step
  /\ UNCHANGED <<age, version, record, session, current, then, app, downloads, crashes>>

Unrecord ==
  /\ step = "unrecording"
  /\ record' = NoRecord /\ step' = "cleaning"
  /\ UNCHANGED <<files, session, current, doomed, then, app, limits>>

Cleaned ==
  /\ step = "cleaning" /\ doomed = {}
  /\ step' = then
  /\ UNCHANGED <<files, record, session, current, doomed, then, app, limits>>

Answer ==
  /\ step = "answering"
  /\ offered' = current /\ Goes("idle")
  /\ UNCHANGED <<files, record, session, open, checked, handed, installed, limits>>

-----------------------------------------------------------------------------
(* Staging a release (_stage).                                             *)

\* A release that is staged already is offered again.
StageAgain ==
  /\ current' = record.download
  /\ Clean("answering")
  /\ UNCHANGED <<version, downloads>>

StageAnew(v) ==
  /\ downloads < MaxDownloads
  /\ downloads' = downloads + 1 /\ current' = downloads'
  /\ version' = [version EXCEPT ![downloads'] = v]
  /\ Clean("starting")

Staged(v) ==
  record # NoRecord /\ version[record.download] = v /\ Verified(record)

Stage(v) ==
  /\ open /\ checked /\ step = "idle" /\ v > installed
  /\ \E found \in BOOLEAN :
       /\ Looked(record.download, Staged(v), found)
       /\ IF found THEN StageAgain ELSE StageAnew(v)
  /\ offered' = 0
  /\ UNCHANGED <<part, final, age, record, session, open, checked, handed,
                 installed, crashes>>

Saving(stage) == record' = [download |-> current, stage |-> stage]

\* The record of an earlier update is overwritten.
SaveDownloading ==
  /\ step = "starting"
  /\ Saving("downloading") /\ step' = "opening"
  /\ UNCHANGED <<files, session, current, doomed, then, app, limits>>

Begin ==
  /\ step = "opening"
  /\ part' = [part EXCEPT ![current] = "other"]
  /\ session' = session \cup {current}
  /\ step' = "receiving"
  /\ UNCHANGED <<final, age, version, record, current, doomed, then, app, limits>>

\* The file may be there when the rest of the session cannot be made.
BeginFails ==
  /\ step = "opening" /\ faults < MaxFaults /\ faults' = faults + 1
  /\ part' \in {part, [part EXCEPT ![current] = "other"]}
  /\ Goes("idle")
  /\ UNCHANGED <<final, age, version, record, session, app, misread, downloads,
                 crashes>>

Write ==
  /\ step = "receiving" /\ part[current] = "other"
  /\ \E content \in {"other", "whole"} :
       part' = [part EXCEPT ![current] = content]
  /\ age' = [age EXCEPT ![current] = 0]
  /\ UNCHANGED <<final, version, record, session, step, current, doomed, then,
                 app, limits>>

\* The server sends too much, or another size was announced, or it fails.
Refused ==
  /\ step \in {"starting", "receiving"}
  /\ Goes(IF step = "receiving" THEN "aborting" ELSE "idle")
  /\ UNCHANGED <<files, record, session, app, limits>>

\* The session is over; a file that is too short is left where it is.
Finish ==
  /\ step = "receiving"
  /\ session' = session \ {current}
  /\ Goes("finalizing") \/ (part[current] = "other" /\ Goes("idle"))
  /\ UNCHANGED <<files, record, app, limits>>

Abort ==
  /\ step = "aborting"
  /\ part' = [part EXCEPT ![current] = "none"]
  /\ session' = session \ {current} /\ Goes("idle")
  /\ UNCHANGED <<final, age, version, record, app, limits>>

SaveFinalizing ==
  /\ step = "finalizing"
  /\ Saving("finalizing") /\ step' = "importing"
  /\ UNCHANGED <<files, session, current, doomed, then, app, limits>>

\* The hash of the file is the one the manifest gives.
Intact(d) == part[d] = "whole"

\* Mutant of Import: the partial file is copied.
ImportCopy ==
  /\ step = "importing"
  /\ Intact(current)
  /\ final' = final \cup {current} /\ step' = "saving"
  /\ UNCHANGED <<part, age, version, record, session, current, doomed, then, app,
                 limits>>

\* The hash is computed again before the file gets its final name.
Import ==
  /\ step = "importing"
  /\ IF Intact(current)
       THEN /\ part' = [part EXCEPT ![current] = "none"]
            /\ final' = final \cup {current} /\ Goes("saving")
       ELSE UNCHANGED <<part, final>> /\ Goes("idle")
  /\ UNCHANGED <<age, version, record, session, app, limits>>

SaveVerified ==
  /\ step = "saving"
  /\ Saving("verified") /\ step' = "answering"
  /\ UNCHANGED <<files, session, current, doomed, then, app, limits>>

-----------------------------------------------------------------------------
(* What a start, or a look for updates, makes of the record                 *)
(* (recoverThenCheck).                                                     *)

\* Mutant of Settled: an unfinished import is an unfinished download.
VerifiedIsSettled(found) == record.stage \notin {"downloading", "finalizing"} /\ found

Settled(found) == record.stage # "downloading" /\ found

Sort(found) ==
  IF ~Settled(found) THEN step' = "forgetting" /\ UNCHANGED <<doomed, then>>
  ELSE IF record.stage = "finalizing"
    THEN step' = "settling" /\ UNCHANGED <<doomed, then>>
  ELSE Clean("rechecking")

Recover ==
  /\ open /\ step = "idle"
  /\ checked' = TRUE
  /\ current' = record.download
  /\ \/ /\ record = NoRecord
        /\ Clean("answering") /\ UNCHANGED <<faults, misread>>
     \/ /\ record # NoRecord /\ installed >= version[record.download]
        /\ step' = "removing" /\ UNCHANGED <<doomed, then, faults, misread>>
     \/ /\ record # NoRecord /\ installed < version[record.download]
        /\ \E found \in BOOLEAN :
             Looked(record.download, Verified(record), found) /\ Sort(found)
  /\ UNCHANGED <<files, record, session, offered, open, handed, installed,
                 downloads, crashes>>

\* The installer is verified a second time.
Resume(found) ==
  IF found THEN Clean("rechecking")
  ELSE step' = "forgetting" /\ UNCHANGED <<doomed, then>>

\* Mutant of Settle: the record stays as it is.
SettleUnsaved ==
  /\ step = "settling"
  /\ record' = record
  /\ \E found \in BOOLEAN : Looked(current, current \in final, found) /\ Resume(found)
  /\ UNCHANGED <<files, session, current, app, downloads, crashes>>

\* The import was finished and not recorded.
Settle ==
  /\ step = "settling"
  /\ Saving("verified")
  /\ \E found \in BOOLEAN : Looked(current, current \in final, found) /\ Resume(found)
  /\ UNCHANGED <<files, session, current, app, downloads, crashes>>

\* The update is installed: its file goes, if it is what the record says.
Remove ==
  /\ step = "removing" /\ step' = "forgetting"
  /\ \E found \in BOOLEAN :
       /\ Looked(current, current \in final \/ Intact(current), found)
       /\ IF found THEN Gone(current) ELSE UNCHANGED <<part, final>>
  /\ UNCHANGED <<age, version, record, session, current, doomed, then, app,
                 downloads, crashes>>

Forget ==
  /\ step = "forgetting"
  /\ record' = NoRecord /\ current' = 0
  /\ Clean("answering")
  /\ UNCHANGED <<files, session, app, limits>>

\* What is verified is the record as it was read, cleared since or not.
Recheck ==
  /\ step = "rechecking"
  /\ step' = "answering"
  /\ \E found \in BOOLEAN :
       /\ Looked(current, current \in final, found)
       /\ IF found THEN UNCHANGED <<record, current>>
          ELSE record' = NoRecord /\ current' = 0
  /\ UNCHANGED <<files, session, doomed, then, app, downloads, crashes>>

-----------------------------------------------------------------------------
(* Handing the installer over (apply): the app exits, and the script it     *)
(* started runs the installer then.                                        *)

Apply ==
  /\ open /\ step = "idle"
  /\ offered # 0 /\ record.download = offered /\ Verified(record)
  /\ current' = offered
  /\ record' = [record EXCEPT !.stage = "handoffStarted"]
  /\ step' = "launching"
  /\ UNCHANGED <<files, session, doomed, then, app, limits>>

Closed ==
  /\ open' = FALSE /\ session' = {} /\ Goes("idle") /\ offered' = 0
  /\ part' = [d \in Downloads |-> IF d \in Parts THEN part[d] ELSE "none"]

Launch ==
  /\ step = "launching" /\ Verified(record)
  /\ handed' = current
  /\ Closed
  /\ UNCHANGED <<final, age, version, record, checked, installed, limits>>

\* The installer may be cancelled.
Install ==
  /\ ~open /\ handed # 0
  /\ handed' = 0
  /\ installed' \in {installed} \cup {version[d] : d \in final \cap {handed}}
  /\ UNCHANGED <<files, record, session, step, current, doomed, then, offered,
                 open, checked, limits>>

Start ==
  /\ ~open
  /\ open' = TRUE /\ checked' = FALSE
  /\ UNCHANGED <<files, record, session, step, current, doomed, then, offered,
                 handed, installed, limits>>

-----------------------------------------------------------------------------
(* Errors, crashes, time.                                                  *)

\* A call fails and the operation ends with its error, that of an abort aside,
\* which is dropped.  A save that fails may have been made, and so may the clearing
\* of a record whose installer recovery has misread at its last look.
Fault ==
  /\ faults < MaxFaults /\ faults' = faults + 1
  /\ step \notin {"idle", "opening", "receiving", "answering"}
  /\ step = "cleaning" => doomed # {}
  /\ Goes("idle")
  /\ \/ UNCHANGED <<record, misread>>
     \/ step = "starting" /\ Saving("downloading") /\ UNCHANGED misread
     \/ step = "finalizing" /\ Saving("finalizing") /\ UNCHANGED misread
     \/ step \in {"saving", "settling"} /\ Saving("verified") /\ UNCHANGED misread
     \/ step \in {"unrecording", "forgetting"} /\ record' = NoRecord /\ UNCHANGED misread
     \/ /\ step = "rechecking" /\ record' = NoRecord
        /\ misread' = misread \cup (final \cap {current})
  /\ UNCHANGED <<part, final, age, version, session, app, downloads, crashes>>

Crash ==
  /\ open /\ crashes < MaxCrashes /\ crashes' = crashes + 1
  /\ Closed
  /\ UNCHANGED <<final, age, version, record, checked, handed, installed, misread,
                 downloads, faults>>

\* The day of a partial file, the week and the month of an installer.
NextAge(d) == IF d \in Parts THEN 1 ELSE IF age[d] = 0 THEN 2 ELSE 3

\* A file gets older, one that was there before it first.  Operations ask for the age
\* once, when the cleanup begins: to get older during one is to do so before or after.
Older(d) ==
  /\ step = "idle" /\ d \in Parts \cup final /\ age[d] < NextAge(d)
  /\ \A e \in Parts \cup final :
       e < d => \/ age[e] >= NextAge(d)
                \/ IF e \in Parts THEN age[e] = 1 ELSE d \in Parts
  /\ age' = [age EXCEPT ![d] = NextAge(d)]
  /\ UNCHANGED <<part, final, version, record, session, step, current, doomed,
                 then, app, limits>>

Progress ==
  \/ List
  \/ \E d \in Downloads : Delete(d)
  \/ Unrecord \/ Cleaned \/ Answer
  \/ SaveDownloading \/ Begin \/ Finish \/ Abort
  \/ SaveFinalizing \/ Import \/ SaveVerified
  \/ Settle \/ Remove \/ Forget \/ Recheck \/ Launch

Next ==
  \/ Progress
  \/ \E v \in Versions : Stage(v)
  \/ Write \/ Refused \/ Recover \/ Apply
  \/ Install \/ Start \/ BeginFails \/ Fault \/ Crash
  \/ \E d \in Downloads : Older(d)

Spec == Init /\ [][Next]_vars

\* An operation that was begun goes on (a download that has stalled ends with
\* the error of its stream); the app is started again and looks for updates
\* when it is (app.dart).
FairSpec ==
  /\ Spec
  /\ WF_vars(Progress) /\ WF_vars(Start) /\ WF_vars(Recover /\ ~checked)

-----------------------------------------------------------------------------
(* Correctness.                                                            *)

\* What failed and interrupted attempts leave behind is bounded, misread files
\* aside: an attempt begins beside one partial file of the day and two installers of
\* the week at most, and adds one of each.  A native session stays open only by an
\* error, and only with one does a partial file that was deleted stay.
LeftoversBounded ==
  /\ Cardinality(Parts \ misread) <= 2 /\ Cardinality(final \ misread) <= 3
  /\ step = "opening" =>
       /\ Cardinality(Parts \ misread) <= 1 /\ \A d \in Parts \ misread : age[d] = 0
       /\ Cardinality(final \ misread) <= 2 /\ \A d \in final \ misread : age[d] < 2
  /\ \A d \in Downloads : part[d] = "deleting" => d \in session
  /\ step = "idle" => Cardinality(session) <= faults

\* The user is offered an update only when it can be installed: the record names
\* it and its installer is there.  (Not when the installer was past its 30 days
\* at the time it was looked at: staging it again deletes it and offers it.  Nor
\* when recovery has misread it, cleared the record and met an error then.)
OfferHolds ==
  offered # 0 /\ step = "idle" =>
    \/ record.download = offered /\ Verified(record)
    \/ age[offered] = 3
    \/ offered \in misread

\* docs/05_build_release_packaging.md: "A verified installer is retained for a
\* bounded retry (up to 30 days)".  The installer of the record is deleted only
\* after that time, or when it is installed, or when another one is staged.  (One
\* that was misread has lost its record.)
InstallerRetained ==
  [][\A d \in final \ final' :
       \/ record.download # d \/ age[d] = 3 \/ installed >= version[d]
       \/ then = "starting"]_vars

\* No crash, and no error that is reported as one, makes the program clear the
\* record of an installer that is there, whichever step it came between: only one
\* that was misread loses its record.
RecordKept ==
  [][record # NoRecord /\ record' = NoRecord =>
       ~Verified(record) \/ record.download \in misread']_vars

\* A start that meets no error leaves nothing half done: the record is gone, or
\* its installer is there and offered.
StartSettles ==
  faults = MaxFaults /\ ~checked ~>
    /\ checked /\ step = "idle"
    /\ \/ record = NoRecord
       \/ /\ record.stage \in {"verified", "handoffStarted"}
          /\ record.download = offered /\ Verified(record)
          /\ version[record.download] > installed
=============================================================================
