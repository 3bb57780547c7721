------------------------ MODULE UpdateStaging_proofs ------------------------
(* Proofs about UpdateStaging, for any number of versions, downloads, errors  *)
(* and crashes.                                                               *)
EXTENDS UpdateStaging, FiniteSetTheorems, TLAPS

-----------------------------------------------------------------------------
(* The inductive invariant.                                                *)

\* Nothing runs, and nothing is offered, when the app is closed.
OpenFits == ~open => step = "idle" /\ offered = 0

\* Installers are those of downloads that were begun.
FinalFits == final \subseteq 1 .. downloads

\* A download in progress has no installer, and nothing is offered meanwhile.
Attempt ==
  \/ step \in {"starting", "opening", "receiving", "aborting", "finalizing", "importing"}
  \/ step \in {"listing", "cleaning"} /\ then = "starting"

AttemptFits ==
  /\ Attempt => current \in 1 .. downloads /\ current \notin final
  /\ Attempt \/ step = "saving" => offered = 0 /\ version[current] > installed

\* What the record says of the steps that end a download and of recovery's.
RecordFits ==
  /\ record.stage = "downloading" => record.download \notin final
  /\ step = "importing" => record = [download |-> current, stage |-> "finalizing"]
  /\ step \in {"saving", "settling"} => record.download = current /\ Verified(record)
  /\ step = "removing" =>
       current # 0 /\ record.download = current /\ installed >= version[current]
  /\ step = "forgetting" => ~Verified(record) \/ record.download \in misread

\* The cleanup around a record: it keeps its installer for its 30 days, unless it
\* has misread it.
Late ==
  \/ step \in {"unrecording", "rechecking", "answering", "settling"}
  \/ step \in {"listing", "cleaning"} /\ then # "starting"

Missing(d) == d \notin final \/ d \in misread

LateFits ==
  Late =>
    /\ current = record.download \/ (record = NoRecord /\ Missing(current))
    /\ current # 0 => version[current] > installed

DoomedFits ==
  /\ step = "unrecording" =>
       then # "starting" /\ Missing(current) /\ current \notin doomed
  /\ step = "cleaning" /\ then # "starting" /\ current \in doomed \cap final
       => age[current] = 3

\* An update that is offered, or about to be, is the one of the record, or it was
\* past its time, or misread.
Held(d) ==
  (record.download = d /\ Verified(record)) \/ age[d] = 3 \/ d \in misread

OfferFits ==
  /\ offered # 0 =>
       Held(offered) /\ (record.download = offered => version[offered] > installed)
  /\ current # 0 =>
       \/ ~Late \/ step = "settling" \/ Held(current)
       \/ step # "answering" /\ then = "rechecking"

Inductive ==
  /\ TypeOK /\ OpenFits /\ FinalFits /\ AttemptFits /\ RecordFits
  /\ LateFits /\ DoomedFits /\ OfferFits

\* Before the first update there is no file and no record.
LEMMA InitInductive == Init => Inductive
<1> SUFFICES ASSUME Init PROVE Inductive
  OBVIOUS
<1> USE StagingAssumption DEF Init
<1>1. TypeOK
  <2>1. /\ part \in [Downloads -> {"none", "other", "whole", "deleting"}]
        /\ age \in [Downloads -> 0 .. 3] /\ version \in [Downloads -> Versions \cup {0}]
    OBVIOUS
  <2>2. /\ final = {} /\ session = {} /\ doomed = {} /\ record = NoRecord
        /\ downloads \in 0 .. MaxDownloads /\ faults \in 0 .. MaxFaults
        /\ crashes \in 0 .. MaxCrashes /\ misread = {}
    OBVIOUS
  <2> QED BY <2>1, <2>2 DEF TypeOK
<1>2. OpenFits /\ FinalFits /\ AttemptFits /\ RecordFits
  BY DEF OpenFits, FinalFits, AttemptFits, Attempt, RecordFits, NoRecord
<1>3. LateFits /\ DoomedFits /\ OfferFits
  BY DEF Missing, LateFits, DoomedFits, OfferFits, NoRecord
<1> QED BY <1>1, <1>2, <1>3 DEF Inductive

-----------------------------------------------------------------------------
(* What the steps are made of.                                             *)

Records ==
  [download : Downloads,
   stage : {"downloading", "finalizing", "verified", "handoffStarted"}]

\* A record is of a download; 0 stands for no download.
LEMMA RecordTyped ==
  ASSUME TypeOK
  PROVE  /\ record = NoRecord \/ record \in Records
         /\ record.download \in Downloads \cup {0}
         /\ record = NoRecord <=> record.download = 0
         /\ 0 \notin Downloads /\ 0 \notin final
         /\ NoRecord.download = 0 /\ NoRecord.stage = "none"
BY DEF TypeOK, NoRecord, Records, Downloads

\* Versions can be compared.
LEMMA VersionTyped ==
  ASSUME TypeOK
  PROVE  installed \in Nat /\ \A d \in Downloads : version[d] \in Nat
<1>1. Versions \cup {0} \subseteq Nat
  BY StagingAssumption
<1>2. \A d \in Downloads : version[d] \in Versions \cup {0}
  BY DEF TypeOK
<1>3. installed \in Versions \cup {0}
  BY DEF TypeOK
<1> QED BY <1>1, <1>2, <1>3

\* A save puts the current download on record.
LEMMA Saved ==
  ASSUME TypeOK, current # 0, NEW s \in {"downloading", "finalizing", "verified"}, Saving(s)
  PROVE  /\ record' \in Records /\ record' # NoRecord
         /\ record'.download = current /\ record'.stage = s
<1>1. current \in Downloads
  BY DEF TypeOK
<1>2. [download |-> current, stage |-> s] \in Records
  BY <1>1 DEF Records
<1> QED BY <1>1, <1>2, StagingAssumption DEF Saving, NoRecord, Records, Downloads

\* A look at a file of d tells whether it is there, or is a call that failed.
LEMMA Look ==
  ASSUME TypeOK, NEW d, NEW there \in BOOLEAN, NEW found \in BOOLEAN,
         there => d \in Downloads, Looked(d, there, found)
  PROVE  /\ misread \subseteq misread' /\ misread' \subseteq Downloads
         /\ faults' \in 0 .. MaxFaults
         /\ found => there
         /\ there => found \/ d \in misread'
BY StagingAssumption DEF TypeOK, Looked, Misread

\* A file that is looked at is deleted, unless it was misread.
LEMMA Deletion ==
  ASSUME TypeOK, NEW d, NEW there \in BOOLEAN, there => d \in Downloads,
         d \in final => there,
         \E found \in BOOLEAN :
           Looked(d, there, found) /\ IF found THEN Gone(d) ELSE UNCHANGED <<part, final>>
  PROVE  /\ part' \in [Downloads -> {"none", "other", "whole", "deleting"}]
         /\ final' \subseteq final /\ final \subseteq final' \cup {d}
         /\ \A e \in final' : part'[e] = "none"
         /\ misread \subseteq misread' /\ misread' \subseteq Downloads
         /\ faults' \in 0 .. MaxFaults
         /\ d \notin final' \/ d \in misread'
<1>1. PICK found \in BOOLEAN :
        Looked(d, there, found) /\ IF found THEN Gone(d) ELSE UNCHANGED <<part, final>>
  OBVIOUS
<1>2. /\ misread \subseteq misread' /\ misread' \subseteq Downloads
      /\ faults' \in 0 .. MaxFaults /\ (found => there)
      /\ there => found \/ d \in misread'
  BY <1>1, Look
<1>3. CASE found
  <2>1. Gone(d) /\ d \in Downloads
    BY <1>1, <1>2, <1>3
  <2>2. part' \in [Downloads -> {"none", "other", "whole", "deleting"}]
    BY <2>1 DEF Gone, TypeOK
  <2>3. \A e \in final' : part'[e] = "none"
    BY <2>1 DEF Gone, TypeOK
  <2> QED BY <1>2, <2>1, <2>2, <2>3 DEF Gone
<1>4. CASE ~found
  <2>1. UNCHANGED <<part, final>>
    BY <1>1, <1>4
  <2> QED BY <1>2, <1>4, <2>1 DEF TypeOK
<1> QED BY <1>3, <1>4

\* A listing shows every file that it does not misread.
LEMMA Listing ==
  ASSUME TypeOK, NEW listed \in SUBSET (Parts \cup final), Listed(listed)
  PROVE  /\ misread \subseteq misread' /\ misread' \subseteq Downloads
         /\ faults' \in 0 .. MaxFaults
         /\ (Parts \cup final) \ listed \subseteq misread'
BY StagingAssumption DEF TypeOK, Listed, Misread, Parts

\* A cleanup is going to delete the installer it protects only when its time is
\* over.
LEMMA Cleaning ==
  ASSUME TypeOK, NEW listed \in SUBSET (Parts \cup final)
  PROVE  /\ OldParts(listed) \cup OldFinals(listed) \subseteq Downloads
         /\ Protected \in (OldParts(listed) \cup OldFinals(listed)) \cap final
              => age[Protected] = 3
<1>1. OldParts(listed) \subseteq Downloads /\ OldParts(listed) \cap final = {}
  BY DEF TypeOK, OldParts, Parts
<1>2. OldFinals(listed) \subseteq final /\ final \subseteq Downloads
  BY DEF TypeOK, OldFinals
<1>3. Protected \in OldFinals(listed) => Protected \in Downloads /\ age[Protected] >= 3
  BY <1>2 DEF OldFinals
<1>4. \A d \in Downloads : age[d] \in 0 .. 3
  BY DEF TypeOK
<1> QED BY <1>1, <1>2, <1>3, <1>4

-----------------------------------------------------------------------------
(* One step for each action.                                               *)

\* The cleanup of the directory.
LEMMA CleanupSteps ==
  ASSUME Inductive, List \/ (\E d \in Downloads : Delete(d)) \/ Unrecord \/ Cleaned \/ Answer
  PROVE  Inductive'
<1> USE StagingAssumption, RecordTyped DEF Inductive, files, app, limits
<1>1. ASSUME NEW d \in Downloads, Delete(d)
      PROVE  Inductive'
  <2> USE <1>1 DEF Delete, NextDoomed
  <2>0. /\ part' \in [Downloads -> {"none", "other", "whole", "deleting"}]
        /\ final' \subseteq final /\ final \subseteq final' \cup {d}
        /\ \A e \in final' : part'[e] = "none"
        /\ misread \subseteq misread' /\ misread' \subseteq Downloads
        /\ faults' \in 0 .. MaxFaults
        /\ d \notin final' \/ d \in misread'
    BY Deletion
  <2>1. TypeOK'
    BY <2>0 DEF TypeOK
  <2>2. OpenFits' /\ FinalFits' /\ AttemptFits'
    BY <2>0 DEF OpenFits, FinalFits, AttemptFits, Attempt
  <2>3. RecordFits' /\ DoomedFits'
    BY <2>0 DEF AttemptFits, Attempt, RecordFits, DoomedFits, Missing
  <2>4. LateFits' /\ OfferFits'
    BY <2>0 DEF AttemptFits, Attempt, Missing, LateFits, Late, DoomedFits, OfferFits, Held,
       Verified
  <2> QED BY <2>1, <2>2, <2>3, <2>4
<1>2. CASE Unrecord
  <2> USE <1>2 DEF Unrecord
  <2>1. TypeOK'
    BY DEF TypeOK
  <2>2. OpenFits' /\ FinalFits' /\ AttemptFits'
    <3>1. ~Attempt'
      BY DEF Attempt, DoomedFits, TypeOK
    <3> QED BY <3>1 DEF OpenFits, FinalFits, AttemptFits, TypeOK
  <2>3. RecordFits' /\ DoomedFits'
    BY DEF RecordFits, DoomedFits, Missing
  <2>4. LateFits' /\ OfferFits'
    BY DEF Missing, LateFits, Late, DoomedFits, OfferFits, Held, Verified
  <2> QED BY <2>1, <2>2, <2>3, <2>4
<1>3. CASE Cleaned
  <2> USE <1>3 DEF Cleaned
  <2>1. TypeOK'
    BY DEF TypeOK
  <2>2. OpenFits' /\ FinalFits' /\ AttemptFits'
    BY DEF TypeOK, OpenFits, FinalFits, AttemptFits, Attempt
  <2>3. RecordFits' /\ DoomedFits'
    BY DEF TypeOK, RecordFits, DoomedFits, Missing
  <2>4. LateFits' /\ OfferFits'
    BY DEF Missing, LateFits, Late, OfferFits, Held, Verified
  <2> QED BY <2>1, <2>2, <2>3, <2>4
<1>4. CASE Answer
  <2> USE <1>4 DEF Answer, Goes
  <2>1. TypeOK'
    BY DEF TypeOK
  <2>2. OpenFits' /\ FinalFits' /\ AttemptFits'
    BY DEF OpenFits, FinalFits, AttemptFits, Attempt
  <2>3. RecordFits' /\ DoomedFits'
    BY DEF RecordFits, DoomedFits, Missing
  <2>4. LateFits' /\ OfferFits'
    BY DEF Missing, LateFits, Late, OfferFits, Held, Verified
  <2> QED BY <2>1, <2>2, <2>3, <2>4
<1>5. CASE List
  <2> USE <1>5 DEF List
  <2>0. /\ step = "listing" /\ step' = "cleaning" /\ doomed' \subseteq Downloads
        /\ Protected \in doomed' \cap final => age[Protected] = 3
        /\ misread \subseteq misread' /\ misread' \subseteq Downloads
        /\ faults' \in 0 .. MaxFaults
    <3>1. PICK listed \in SUBSET (Parts \cup final) :
            Listed(listed) /\ doomed' = OldParts(listed) \cup OldFinals(listed)
      OBVIOUS
    <3> QED BY <3>1, Listing, Cleaning
  <2>1. TypeOK'
    BY <2>0 DEF TypeOK
  <2>2. OpenFits' /\ FinalFits' /\ AttemptFits'
    BY <2>0 DEF OpenFits, FinalFits, AttemptFits, Attempt
  <2>3. RecordFits' /\ DoomedFits'
    BY <2>0 DEF RecordFits, DoomedFits, Protected
  <2>4. LateFits' /\ OfferFits'
    BY <2>0 DEF Missing, LateFits, Late, OfferFits, Held, Verified
  <2> QED BY <2>1, <2>2, <2>3, <2>4
<1> QED BY <1>1, <1>2, <1>3, <1>4, <1>5

\* Staging a release.
LEMMA StagingSteps ==
  ASSUME Inductive, (\E v \in Versions : Stage(v)) \/ SaveDownloading \/ Begin \/ BeginFails
                    \/ Write \/ Refused \/ Finish \/ Abort \/ SaveFinalizing \/ Import
                    \/ SaveVerified
  PROVE  Inductive'
<1> USE StagingAssumption, RecordTyped DEF Inductive, files, app, limits
<1>1. ASSUME NEW v \in Versions, Stage(v)
      PROVE  Inductive'
  <2> USE <1>1 DEF Stage
  <2>0. v \in Nat /\ installed \in Nat /\ v > installed
    BY DEF TypeOK
  <2>1. PICK found \in BOOLEAN :
          /\ Looked(record.download, Staged(v), found)
          /\ IF found THEN StageAgain ELSE StageAnew(v)
    OBVIOUS
  <2>2. /\ misread \subseteq misread' /\ misread' \subseteq Downloads
        /\ faults' \in 0 .. MaxFaults
        /\ found => Staged(v)
    <3>1. Staged(v) \in BOOLEAN /\ (Staged(v) => record.download \in Downloads)
      BY DEF Staged
    <3> QED BY <2>1, <3>1, Look
  <2>3. CASE found
    <3>1. /\ step' = "listing" /\ then' = "answering" /\ doomed' = doomed
          /\ current' = record.download /\ current' \in Downloads
          /\ Verified(record) /\ version[record.download] = v
          /\ UNCHANGED <<version, downloads>>
      BY <2>1, <2>2, <2>3 DEF StageAgain, Staged, Clean
    <3>2. TypeOK'
      BY <2>2, <3>1 DEF TypeOK
    <3>3. OpenFits' /\ FinalFits' /\ AttemptFits'
      BY <3>1 DEF OpenFits, FinalFits, AttemptFits, Attempt
    <3>4. RecordFits' /\ DoomedFits'
      BY <3>1 DEF RecordFits, DoomedFits
    <3>5. LateFits' /\ OfferFits'
      BY <2>0, <3>1 DEF LateFits, OfferFits, Held, Verified
    <3> QED BY <3>2, <3>3, <3>4, <3>5
  <2>4. CASE ~found
    <3>1. /\ step' = "listing" /\ then' = "starting" /\ doomed' = doomed
          /\ current' = downloads + 1 /\ current' \in Downloads
          /\ downloads' = downloads + 1 /\ downloads' \in 0 .. MaxDownloads
          /\ version' = [version EXCEPT ![current'] = v]
      BY <2>1, <2>4 DEF StageAnew, Clean, TypeOK, Downloads
    <3>2. TypeOK'
      BY <2>2, <3>1 DEF TypeOK
    <3>3. OpenFits' /\ FinalFits' /\ AttemptFits'
      BY <2>0, <3>1 DEF TypeOK, OpenFits, FinalFits, AttemptFits
    <3>4. RecordFits' /\ DoomedFits'
      BY <3>1 DEF RecordFits, DoomedFits
    <3>5. LateFits' /\ OfferFits'
      BY <3>1 DEF LateFits, Late, OfferFits
    <3> QED BY <3>2, <3>3, <3>4, <3>5
  <2> QED BY <2>3, <2>4
<1>2. CASE SaveDownloading
  <2> USE <1>2 DEF SaveDownloading, Saving
  <2>1. TypeOK'
    <3>1. current # 0
      BY DEF AttemptFits, Attempt
    <3>2. record' \in Records
      BY <3>1, Saved
    <3> HIDE DEF Inductive
    <3> QED BY <3>2 DEF Inductive, TypeOK, Records
  <2>2. OpenFits' /\ FinalFits' /\ AttemptFits'
    BY DEF OpenFits, FinalFits, AttemptFits, Attempt
  <2>3. RecordFits' /\ DoomedFits'
    BY DEF AttemptFits, Attempt, RecordFits, DoomedFits
  <2>4. LateFits' /\ OfferFits'
    BY DEF AttemptFits, Attempt, LateFits, Late, OfferFits
  <2> QED BY <2>1, <2>2, <2>3, <2>4
<1>3. CASE Begin
  <2> USE <1>3 DEF Begin
  <2>1. TypeOK'
    <3>1. current \in Downloads /\ current \notin final
      BY DEF TypeOK, AttemptFits, Attempt
    <3>2. part' \in [Downloads -> {"none", "other", "whole", "deleting"}]
      BY <3>1 DEF TypeOK
    <3>3. \A d \in final' : part'[d] = "none"
      BY <3>1 DEF TypeOK
    <3> QED BY <3>1, <3>2, <3>3 DEF TypeOK
  <2>2. OpenFits' /\ FinalFits' /\ AttemptFits'
    BY DEF OpenFits, FinalFits, AttemptFits, Attempt
  <2>3. RecordFits' /\ DoomedFits'
    BY DEF RecordFits, DoomedFits, Missing
  <2>4. LateFits' /\ OfferFits'
    BY DEF Missing, LateFits, Late, OfferFits, Held, Verified
  <2> QED BY <2>1, <2>2, <2>3, <2>4
<1>4. CASE BeginFails
  <2> USE <1>4 DEF BeginFails, Goes
  <2>1. TypeOK'
    <3>1. current \in Downloads /\ current \notin final
      BY DEF TypeOK, AttemptFits, Attempt
    <3>2. part' \in [Downloads -> {"none", "other", "whole", "deleting"}]
      BY <3>1 DEF TypeOK
    <3>3. \A d \in final' : part'[d] = "none"
      BY <3>1 DEF TypeOK
    <3> QED BY <3>1, <3>2, <3>3 DEF TypeOK
  <2>2. OpenFits' /\ FinalFits' /\ AttemptFits'
    BY DEF OpenFits, FinalFits, AttemptFits, Attempt
  <2>3. RecordFits' /\ DoomedFits'
    BY DEF RecordFits, DoomedFits, Missing
  <2>4. LateFits' /\ OfferFits'
    BY DEF Missing, LateFits, Late, OfferFits, Held, Verified
  <2> QED BY <2>1, <2>2, <2>3, <2>4
<1>5. CASE Write
  <2> USE <1>5 DEF Write
  <2>1. TypeOK'
    <3>1. current \in Downloads /\ current \notin final
      BY DEF TypeOK, AttemptFits, Attempt
    <3>2. part' \in [Downloads -> {"none", "other", "whole", "deleting"}]
      BY <3>1 DEF TypeOK
    <3>3. \A d \in final' : part'[d] = "none"
      BY <3>1 DEF TypeOK
    <3> QED BY <3>1, <3>2, <3>3 DEF TypeOK
  <2>2. OpenFits' /\ FinalFits' /\ AttemptFits'
    BY DEF OpenFits, FinalFits, AttemptFits, Attempt
  <2>3. RecordFits' /\ DoomedFits'
    BY DEF RecordFits, DoomedFits, Missing
  <2>4. LateFits' /\ OfferFits'
    BY DEF AttemptFits, Attempt, LateFits, Late, OfferFits
  <2> QED BY <2>1, <2>2, <2>3, <2>4
<1>6. CASE Refused
  <2> USE <1>6 DEF Refused, Goes
  <2>1. TypeOK'
    BY DEF TypeOK
  <2>2. OpenFits' /\ FinalFits' /\ AttemptFits'
    BY DEF OpenFits, FinalFits, AttemptFits, Attempt
  <2>3. RecordFits' /\ DoomedFits'
    BY DEF RecordFits, DoomedFits, Missing
  <2>4. LateFits' /\ OfferFits'
    BY DEF Missing, LateFits, Late, OfferFits, Held, Verified
  <2> QED BY <2>1, <2>2, <2>3, <2>4
<1>7. CASE Finish
  <2> USE <1>7 DEF Finish, Goes
  <2>1. TypeOK'
    BY DEF TypeOK
  <2>2. OpenFits' /\ FinalFits' /\ AttemptFits'
    BY DEF OpenFits, FinalFits, AttemptFits, Attempt
  <2>3. RecordFits' /\ DoomedFits'
    BY DEF RecordFits, DoomedFits, Missing
  <2>4. LateFits' /\ OfferFits'
    BY DEF Missing, LateFits, Late, OfferFits, Held, Verified
  <2> QED BY <2>1, <2>2, <2>3, <2>4
<1>8. CASE Abort
  <2> USE <1>8 DEF Abort, Goes
  <2>1. TypeOK'
    BY DEF TypeOK
  <2>2. OpenFits' /\ FinalFits' /\ AttemptFits'
    BY DEF OpenFits, FinalFits, AttemptFits, Attempt
  <2>3. RecordFits' /\ DoomedFits'
    BY DEF RecordFits, DoomedFits, Missing
  <2>4. LateFits' /\ OfferFits'
    BY DEF Missing, LateFits, Late, OfferFits, Held, Verified
  <2> QED BY <2>1, <2>2, <2>3, <2>4
<1>9. CASE SaveFinalizing
  <2> USE <1>9 DEF SaveFinalizing, Saving
  <2>1. TypeOK'
    <3>1. current # 0
      BY DEF AttemptFits, Attempt
    <3>2. record' \in Records
      BY <3>1, Saved
    <3> HIDE DEF Inductive
    <3> QED BY <3>2 DEF Inductive, TypeOK, Records
  <2>2. OpenFits' /\ FinalFits' /\ AttemptFits'
    BY DEF OpenFits, FinalFits, AttemptFits, Attempt
  <2>3. RecordFits' /\ DoomedFits'
    BY DEF RecordFits, DoomedFits, Missing
  <2>4. LateFits' /\ OfferFits'
    BY DEF AttemptFits, Attempt, LateFits, Late, OfferFits
  <2> QED BY <2>1, <2>2, <2>3, <2>4
<1>10. CASE Import
  <2> USE <1>10 DEF Import, Intact, Goes
  <2>1. TypeOK'
    <3>1. current \in Downloads /\ current \notin final
      BY DEF TypeOK, AttemptFits, Attempt
    <3>2. part' \in [Downloads -> {"none", "other", "whole", "deleting"}]
      BY <3>1 DEF TypeOK
    <3>3. \A d \in final' : part'[d] = "none"
      BY <3>1 DEF TypeOK
    <3> QED BY <3>1, <3>2, <3>3 DEF TypeOK
  <2>2. OpenFits' /\ FinalFits' /\ AttemptFits'
    <3>1. current \in 1 .. downloads
      BY DEF AttemptFits, Attempt
    <3> QED BY <3>1 DEF OpenFits, FinalFits, AttemptFits, Attempt
  <2>3. RecordFits' /\ DoomedFits'
    BY DEF RecordFits, DoomedFits, Verified
  <2>4. LateFits' /\ OfferFits'
    BY DEF Missing, LateFits, Late, OfferFits, Held, Verified
  <2> QED BY <2>1, <2>2, <2>3, <2>4
<1>11. CASE SaveVerified
  <2> USE <1>11 DEF SaveVerified, Saving
  <2>1. TypeOK'
    <3>1. current # 0
      BY DEF RecordFits, Verified
    <3>2. record' \in Records
      BY <3>1, Saved
    <3> HIDE DEF Inductive
    <3> QED BY <3>2 DEF Inductive, TypeOK, Records
  <2>2. OpenFits' /\ FinalFits' /\ AttemptFits'
    BY DEF OpenFits, FinalFits, AttemptFits, Attempt
  <2>3. RecordFits' /\ DoomedFits'
    BY DEF RecordFits, DoomedFits, Missing
  <2>4. LateFits' /\ OfferFits'
    BY DEF AttemptFits, RecordFits, LateFits, OfferFits, Held, Verified
  <2> QED BY <2>1, <2>2, <2>3, <2>4
<1> QED BY <1>1, <1>2, <1>3, <1>4, <1>5, <1>6, <1>7, <1>8, <1>9, <1>10, <1>11

\* What recovery makes of the record.
LEMMA RecoverySteps ==
  ASSUME Inductive, Recover \/ Settle \/ Remove \/ Forget \/ Recheck
  PROVE  Inductive'
<1> USE StagingAssumption, RecordTyped DEF Inductive, files, app, limits
<1>1. CASE Recover
  <2> USE <1>1 DEF Recover
  <2>1. /\ current' = record.download /\ doomed' = doomed
        /\ misread \subseteq misread' /\ misread' \subseteq Downloads
        /\ faults' \in 0 .. MaxFaults
        /\ \/ /\ record = NoRecord
              /\ step' = "listing" /\ then' = "answering"
           \/ /\ record # NoRecord /\ installed >= version[record.download]
              /\ step' = "removing" /\ then' = then
           \/ /\ record # NoRecord
              /\ ~Verified(record) \/ record.download \in misread'
              /\ step' = "forgetting" /\ then' = then
           \/ /\ record # NoRecord /\ Verified(record)
              /\ version[record.download] > installed
              /\ \/ step' = "settling" /\ then' = then
                 \/ step' = "listing" /\ then' = "rechecking"
    <3>1. CASE record = NoRecord \/ installed >= version[record.download]
      <4>1. misread \subseteq Downloads /\ faults \in 0 .. MaxFaults
        BY DEF TypeOK
      <4> QED BY <3>1, <4>1, VersionTyped DEF Clean
    <3>2. CASE record # NoRecord /\ installed < version[record.download]
      <4>0. installed \in Nat /\ version[record.download] \in Nat
        BY <3>2, VersionTyped
      <4>1. PICK found \in BOOLEAN :
              Looked(record.download, Verified(record), found) /\ Sort(found)
        BY <3>2, <4>0
      <4>2. /\ misread \subseteq misread' /\ misread' \subseteq Downloads
            /\ faults' \in 0 .. MaxFaults /\ (found => Verified(record))
            /\ Verified(record) => found \/ record.download \in misread'
        <5>1. Verified(record) \in BOOLEAN
          BY DEF Verified
        <5> QED BY <3>2, <4>1, <5>1, Look
      <4>3. CASE Settled(found)
        BY <3>2, <4>0, <4>1, <4>2, <4>3 DEF Sort, Settled, Clean
      <4>4. CASE ~Settled(found)
        <5>1. ~Verified(record) \/ record.download \in misread'
          BY <4>2, <4>4 DEF Settled, RecordFits, Verified
        <5>2. step' = "forgetting" /\ UNCHANGED <<doomed, then>>
          BY <4>1, <4>4 DEF Sort
        <5> QED BY <3>2, <4>2, <5>1, <5>2
      <4> QED BY <4>3, <4>4
    <3>3. record = NoRecord \/ (installed \in Nat /\ version[record.download] \in Nat)
      BY VersionTyped
    <3> QED BY <3>1, <3>2, <3>3
  <2>2. TypeOK'
    BY <2>1 DEF TypeOK
  <2>3. OpenFits' /\ FinalFits' /\ AttemptFits'
    BY <2>1 DEF OpenFits, FinalFits, AttemptFits, Attempt
  <2>4. RecordFits' /\ DoomedFits'
    BY <2>1 DEF RecordFits, DoomedFits, Verified
  <2>5. LateFits' /\ OfferFits'
    BY <2>1 DEF LateFits, Late, OfferFits, Held, Verified
  <2> QED BY <2>2, <2>3, <2>4, <2>5
<1>2. CASE Settle
  <2> USE <1>2 DEF Settle
  <2>0. /\ \/ step' = "listing" /\ then' = "rechecking"
           \/ step' = "forgetting" /\ then' = then /\ current \in misread'
        /\ doomed' = doomed
        /\ misread \subseteq misread' /\ misread' \subseteq Downloads
        /\ faults' \in 0 .. MaxFaults
        /\ current # 0 /\ current \in final /\ record.download = current
        /\ record' \in Records /\ record' # NoRecord
        /\ record'.download = current /\ record'.stage = "verified"
    <3>1. current \in final /\ current \in Downloads /\ record.download = current
      BY DEF TypeOK, RecordFits, Verified
    <3>2. PICK found \in BOOLEAN : Looked(current, current \in final, found) /\ Resume(found)
      OBVIOUS
    <3>3. /\ misread \subseteq misread' /\ misread' \subseteq Downloads
          /\ faults' \in 0 .. MaxFaults /\ (found \/ current \in misread')
      BY <3>1, <3>2, Look
    <3>4. /\ record' \in Records /\ record' # NoRecord
          /\ record'.download = current /\ record'.stage = "verified"
      BY <3>1, Saved
    <3>5. /\ doomed' = doomed
          /\ \/ found /\ step' = "listing" /\ then' = "rechecking"
             \/ ~found /\ step' = "forgetting" /\ then' = then
      BY <3>2 DEF Resume, Clean
    <3>6. current # 0
      BY <3>1
    <3> HIDE <1>2 DEF Inductive, Settle
    <3> QED BY <3>1, <3>3, <3>4, <3>5, <3>6
  <2>1. TypeOK'
    <3> QED BY <2>0 DEF TypeOK, Records
  <2>2. OpenFits' /\ FinalFits' /\ AttemptFits'
    BY <2>0 DEF OpenFits, FinalFits, AttemptFits, Attempt
  <2>3. RecordFits' /\ DoomedFits'
    BY <2>0 DEF RecordFits, DoomedFits
  <2>4. LateFits' /\ OfferFits'
    BY <2>0 DEF LateFits, Late, OfferFits, Held, Verified
  <2> QED BY <2>1, <2>2, <2>3, <2>4
<1>3. CASE Remove
  <2> USE <1>3 DEF Remove
  <2>0. /\ part' \in [Downloads -> {"none", "other", "whole", "deleting"}]
        /\ final' \subseteq final /\ final \subseteq final' \cup {current}
        /\ \A e \in final' : part'[e] = "none"
        /\ misread \subseteq misread' /\ misread' \subseteq Downloads
        /\ faults' \in 0 .. MaxFaults
        /\ current \notin final' \/ current \in misread'
    <3> DEFINE there == current \in final \/ Intact(current)
    <3>1. there \in BOOLEAN /\ (there => current \in Downloads) /\ (current \in final => there)
      BY DEF TypeOK, Intact, RecordFits
    <3>2. \E found \in BOOLEAN :
            /\ Looked(current, there, found)
            /\ IF found THEN Gone(current) ELSE UNCHANGED <<part, final>>
      OBVIOUS
    <3> HIDE DEF there
    <3> QED BY <3>1, <3>2, Deletion
  <2>1. TypeOK'
    BY <2>0 DEF TypeOK
  <2>2. OpenFits' /\ FinalFits' /\ AttemptFits'
    BY <2>0 DEF OpenFits, FinalFits, AttemptFits, Attempt
  <2>3. RecordFits' /\ DoomedFits'
    BY <2>0 DEF RecordFits, DoomedFits, Verified
  <2>4. LateFits' /\ OfferFits'
    <3>1. record.download # 0 => version[record.download] \in Nat
      BY VersionTyped
    <3>2. installed \in Nat /\ record.download = current /\ installed >= version[current]
      BY DEF TypeOK, RecordFits
    <3>3. offered # 0 => record.download # offered
      BY <3>1, <3>2 DEF OfferFits
    <3>4. ~Late'
      BY DEF Late
    <3> QED BY <2>0, <3>3, <3>4 DEF LateFits, OfferFits, Held, Verified
  <2> QED BY <2>1, <2>2, <2>3, <2>4
<1>4. CASE Forget
  <2> USE <1>4 DEF Forget
  <2>0. /\ step' = "listing" /\ then' = "answering" /\ doomed' = doomed
        /\ record' = NoRecord /\ current' = 0
    BY DEF Clean
  <2>1. TypeOK'
    BY <2>0 DEF TypeOK
  <2>2. OpenFits' /\ FinalFits' /\ AttemptFits'
    BY <2>0 DEF OpenFits, FinalFits, AttemptFits, Attempt
  <2>3. RecordFits' /\ DoomedFits'
    BY <2>0 DEF RecordFits, DoomedFits
  <2>4. LateFits' /\ OfferFits'
    BY <2>0 DEF RecordFits, LateFits, OfferFits, Held, Verified
  <2> QED BY <2>1, <2>2, <2>3, <2>4
<1>5. CASE Recheck
  <2> USE <1>5 DEF Recheck
  <2>0. /\ misread \subseteq misread' /\ misread' \subseteq Downloads
        /\ faults' \in 0 .. MaxFaults
        /\ \/ current \in final /\ record' = record /\ current' = current
           \/ record' = NoRecord /\ current' = 0
        /\ current \notin final \/ current' = current \/ current \in misread'
    <3>1. PICK found \in BOOLEAN :
            /\ Looked(current, current \in final, found)
            /\ IF found THEN UNCHANGED <<record, current>> ELSE record' = NoRecord /\ current' = 0
      OBVIOUS
    <3>2. /\ misread \subseteq misread' /\ misread' \subseteq Downloads
          /\ faults' \in 0 .. MaxFaults /\ (found => current \in final)
          /\ current \in final => found \/ current \in misread'
      <4>1. (current \in final) \in BOOLEAN /\ (current \in final => current \in Downloads)
        BY DEF TypeOK
      <4> QED BY <3>1, <4>1, Look
    <3>3. CASE found
      BY <3>1, <3>2, <3>3
    <3>4. CASE ~found
      BY <3>1, <3>2, <3>4
    <3> QED BY <3>3, <3>4
  <2>1. TypeOK'
    BY <2>0 DEF TypeOK
  <2>2. OpenFits' /\ FinalFits' /\ AttemptFits'
    BY <2>0 DEF OpenFits, FinalFits, AttemptFits, Attempt
  <2>3. RecordFits' /\ DoomedFits'
    BY <2>0 DEF RecordFits, DoomedFits
  <2>4. LateFits' /\ OfferFits'
    BY <2>0 DEF LateFits, Late, Missing, OfferFits, Held, Verified
  <2> QED BY <2>1, <2>2, <2>3, <2>4
<1> QED BY <1>1, <1>2, <1>3, <1>4, <1>5

\* The hand-over, and what may happen at any time.
LEMMA OtherSteps ==
  ASSUME Inductive, Apply \/ Launch \/ Install \/ Start \/ Fault \/ Crash
                    \/ (\E d \in Downloads : Older(d))
  PROVE  Inductive'
<1> USE StagingAssumption, RecordTyped DEF Inductive, files, app, limits
<1>1. CASE Apply
  <2> USE <1>1 DEF Apply
  <2>1. TypeOK'
    BY DEF TypeOK
  <2>2. OpenFits' /\ FinalFits' /\ AttemptFits'
    BY DEF OpenFits, FinalFits, AttemptFits, Attempt
  <2>3. RecordFits' /\ DoomedFits'
    BY DEF RecordFits, DoomedFits, Missing
  <2>4. LateFits' /\ OfferFits'
    BY DEF Missing, LateFits, OfferFits, Held, Verified
  <2> QED BY <2>1, <2>2, <2>3, <2>4
<1>2. CASE Launch
  <2> USE <1>2 DEF Launch, Closed, Goes, Parts
  <2>1. TypeOK'
    BY DEF TypeOK
  <2>2. OpenFits' /\ FinalFits' /\ AttemptFits'
    BY DEF OpenFits, FinalFits, AttemptFits, Attempt
  <2>3. RecordFits' /\ DoomedFits'
    BY DEF RecordFits, DoomedFits, Missing
  <2>4. LateFits' /\ OfferFits'
    BY DEF Missing, LateFits, Late, OfferFits
  <2> QED BY <2>1, <2>2, <2>3, <2>4
<1>3. CASE Install
  <2> USE <1>3 DEF Install
  <2>1. TypeOK'
    BY DEF TypeOK
  <2>2. OpenFits' /\ FinalFits' /\ AttemptFits'
    BY DEF OpenFits, FinalFits, AttemptFits, Attempt
  <2>3. RecordFits' /\ DoomedFits'
    BY DEF OpenFits, RecordFits, DoomedFits
  <2>4. LateFits' /\ OfferFits'
    BY DEF OpenFits, LateFits, Late, OfferFits
  <2> QED BY <2>1, <2>2, <2>3, <2>4
<1>4. CASE Start
  <2> USE <1>4 DEF Start
  <2>1. TypeOK'
    <3>1. open' \in BOOLEAN /\ checked' \in BOOLEAN
      OBVIOUS
    <3> QED BY <3>1 DEF TypeOK
  <2>2. OpenFits' /\ FinalFits' /\ AttemptFits'
    BY DEF OpenFits, FinalFits, AttemptFits, Attempt
  <2>3. RecordFits' /\ DoomedFits'
    BY DEF RecordFits, DoomedFits, Missing, Verified
  <2>4. LateFits' /\ OfferFits'
    BY DEF Missing, LateFits, Late, OfferFits, Held, Verified
  <2> QED BY <2>1, <2>2, <2>3, <2>4
<1>5. CASE Fault
  <2> USE <1>5 DEF Fault
  <2>0. /\ step' = "idle" /\ current' = 0 /\ doomed' = {} /\ then' = "answering"
        /\ misread \subseteq misread' /\ misread' \subseteq Downloads
        /\ faults' \in 0 .. MaxFaults
        /\ \/ record' = record
           \/ record' = NoRecord /\ (~Verified(record) \/ record.download \in misread')
           \/ /\ record' \in Records /\ record'.download = current
              /\ record'.stage \in {"downloading", "finalizing", "verified"}
              /\ record'.stage = "downloading" => current \notin final
              /\ offered = 0 \/ record.download = current
    <3>1. step \in {"starting", "finalizing", "saving", "settling"} => current # 0
      BY DEF AttemptFits, Attempt, RecordFits, Verified
    <3>2. step \in {"unrecording", "forgetting"} => ~Verified(record) \/ record.download \in misread
      BY DEF RecordFits, LateFits, Late, DoomedFits, Missing, Verified
    <3>3. step \in {"starting", "finalizing"} => current \notin final
      BY DEF AttemptFits, Attempt
    <3>4. offered = 0 \/ record.download = current \/ step \notin {"starting", "finalizing", "saving", "settling"}
      BY DEF AttemptFits, Attempt, RecordFits
    <3>5. step = "rechecking" =>
            ~Verified(record) \/ record.download \in misread \cup (final \cap {current})
      BY DEF LateFits, Late, Missing, Verified
    <3>6. /\ step' = "idle" /\ current' = 0 /\ doomed' = {} /\ then' = "answering"
          /\ faults' \in 0 .. MaxFaults
      BY DEF Goes, TypeOK
    <3>7. misread \subseteq misread' /\ misread' \subseteq Downloads
      BY DEF TypeOK
    <3> HIDE DEF Inductive
    <3> QED BY <3>1, <3>2, <3>3, <3>4, <3>5, <3>6, <3>7, Saved DEF Inductive
  <2>1. TypeOK'
    BY <2>0 DEF TypeOK, Records
  <2>2. OpenFits' /\ FinalFits' /\ AttemptFits'
    BY <2>0 DEF OpenFits, FinalFits, AttemptFits, Attempt
  <2>3. RecordFits' /\ DoomedFits'
    BY <2>0 DEF RecordFits, DoomedFits
  <2>4. LateFits' /\ OfferFits'
    BY <2>0 DEF LateFits, Late, OfferFits, Held, Verified
  <2> QED BY <2>1, <2>2, <2>3, <2>4
<1>6. CASE Crash
  <2> USE <1>6 DEF Crash, Closed, Goes, Parts
  <2>1. TypeOK'
    <3>1. open' \in BOOLEAN /\ checked' \in BOOLEAN
      BY DEF TypeOK
    <3> QED BY <3>1 DEF TypeOK
  <2>2. OpenFits' /\ FinalFits' /\ AttemptFits'
    BY DEF OpenFits, FinalFits, AttemptFits, Attempt
  <2>3. RecordFits' /\ DoomedFits'
    BY DEF RecordFits, DoomedFits, Missing
  <2>4. LateFits' /\ OfferFits'
    BY DEF Missing, LateFits, Late, OfferFits
  <2> QED BY <2>1, <2>2, <2>3, <2>4
<1>7. ASSUME NEW d \in Downloads, Older(d)
      PROVE  Inductive'
  <2> USE <1>7 DEF Older, NextAge, Parts
  <2>1. TypeOK'
    BY DEF TypeOK
  <2>2. OpenFits' /\ FinalFits' /\ AttemptFits'
    BY DEF OpenFits, FinalFits, AttemptFits, Attempt
  <2>3. RecordFits' /\ DoomedFits'
    BY DEF RecordFits, DoomedFits, Verified
  <2>4. LateFits' /\ OfferFits'
    BY DEF Missing, LateFits, Late, OfferFits, Held, Verified
  <2> QED BY <2>1, <2>2, <2>3, <2>4
<1> QED BY <1>1, <1>2, <1>3, <1>4, <1>5, <1>6, <1>7

\* Every step preserves the invariant.
LEMMA NextInductive ==
  ASSUME Inductive, [Next]_vars
  PROVE  Inductive'
<1>1. CASE UNCHANGED vars
  BY <1>1
  DEF vars, files, app, limits, Inductive, TypeOK, OpenFits, FinalFits, AttemptFits,
      Attempt,
      RecordFits, LateFits, Late, Missing, DoomedFits, OfferFits, Held, Verified
<1> QED BY <1>1, CleanupSteps, StagingSteps, RecoverySteps, OtherSteps DEF Next, Progress

\* The inductive invariant of the specification.
THEOREM InductiveInvariance == Spec => []Inductive
BY InitInductive, NextInductive, PTL DEF Spec

-----------------------------------------------------------------------------
(* What follows.                                                           *)

\* Every variable keeps its type; in particular no download has its partial file
\* and its installer at once.
THEOREM TypeCorrect == Spec => []TypeOK
<1>1. Inductive => TypeOK
  BY DEF Inductive
<1> QED BY <1>1, InductiveInvariance, PTL

\* An update that is offered is the one of the record and its installer is there, for
\* any number of errors and crashes, unless the installer was past its 30 days or was
\* misread: OfferHolds, which also holds between the steps of an operation.
THEOREM OffersHold == Spec => []OfferHolds
<1>1. Inductive => OfferHolds
  BY DEF Inductive, OfferFits, Held, OfferHolds
<1> QED BY <1>1, InductiveInvariance, PTL

\* No step clears the record of an installer that is there, unless it was misread: the
\* steps that clear one come only after its installer is gone, or was never made.
THEOREM RecordsKept == Spec => RecordKept
<1> DEFINE Kept == ~Verified(record) \/ record.download \in misread'
<1> DEFINE A == record # NoRecord /\ record' = NoRecord => Kept
<1>1. ASSUME Inductive, [Next]_vars
      PROVE  [A]_vars
  <2> SUFFICES ASSUME record # NoRecord, record' = NoRecord, Next
               PROVE  Kept
    BY <1>1 DEF vars
  <2>1. CASE Unrecord \/ Forget
    BY <2>1, <1>1, RecordTyped
    DEF Unrecord, Forget, Inductive, RecordFits, LateFits, Late, DoomedFits, Missing,
        Verified, limits
  <2>2. CASE Recheck
    <3>1. current = record.download
      BY <2>2, <1>1 DEF Recheck, Inductive, LateFits, Late
    <3>2. PICK found \in BOOLEAN :
            /\ Looked(current, current \in final, found)
            /\ IF found THEN UNCHANGED <<record, current>> ELSE record' = NoRecord /\ current' = 0
      BY <2>2 DEF Recheck
    <3>3. ~found
      BY <3>2
    <3> QED BY <3>1, <3>2, <3>3 DEF Looked, Misread, Verified
  <2>3. CASE Fault
    <3>1. step \in {"starting", "finalizing", "saving", "settling"} => current # 0
      BY <1>1, RecordTyped DEF Inductive, AttemptFits, Attempt, RecordFits, Verified
    <3>2. CASE step \in {"unrecording", "forgetting"}
      <4>1. misread \subseteq misread'
        BY <2>3 DEF Fault
      <4> QED BY <3>2, <4>1, <1>1, RecordTyped
          DEF Inductive, RecordFits, LateFits, Late, DoomedFits, Missing, Verified
    <3>3. CASE step = "rechecking" /\ misread' = misread \cup (final \cap {current})
      BY <3>3, <1>1 DEF Inductive, LateFits, Late, Verified
    <3> QED BY <2>3, <3>1, <3>2, <3>3, <1>1, Saved DEF Fault, Inductive
  <2>4. CASE SaveDownloading \/ SaveFinalizing \/ SaveVerified \/ Settle
    <3>1. current # 0
      BY <2>4, <1>1, RecordTyped DEF SaveDownloading, SaveFinalizing, SaveVerified, Settle,
         Inductive, AttemptFits, Attempt, RecordFits, Verified
    <3> QED BY <2>4, <3>1, <1>1, Saved
        DEF SaveDownloading, SaveFinalizing, SaveVerified, Settle, Inductive
  <2>5. CASE Apply
    BY <2>5, <1>1, RecordTyped DEF Apply, Inductive, NoRecord, Records
  <2> QED BY <2>1, <2>2, <2>3, <2>4, <2>5
       DEF Next, Progress, List, Delete, Cleaned, Answer, Begin, BeginFails, Write, Refused,
        Finish, Abort, Import, Remove, Recover, Launch, Install, Start, Crash, Older, Stage
<1> QED BY <1>1, InductiveInvariance, PTL DEF Spec, RecordKept

\* The installer of the record is deleted only past its 30 days, when it is
\* installed, or in favour of another one.
THEOREM InstallersRetained == Spec => InstallerRetained
<1> DEFINE A == \A d \in final \ final' :
                  \/ record.download # d \/ age[d] = 3 \/ installed >= version[d]
                  \/ then = "starting"
<1>1. ASSUME Inductive, [Next]_vars
      PROVE  [A]_vars
  <2>1. CASE Remove
    <3>1. final \ final' \subseteq {current}
      BY <2>1 DEF Remove, Gone
    <3> QED BY <3>1, <2>1, <1>1 DEF Remove, Inductive, RecordFits
  <2>2. ASSUME NEW d \in Downloads, Delete(d)
        PROVE  A
    <3>1. final \ final' \subseteq {d} /\ step = "cleaning" /\ d \in doomed
      BY <2>2 DEF Delete, NextDoomed, Gone
    <3> QED BY <3>1, <1>1, RecordTyped DEF Inductive, LateFits, Late, DoomedFits
  <2>3. CASE final \subseteq final'
    BY <2>3
  <2>4. ~Remove /\ ~(\E d \in Downloads : Delete(d)) => final \subseteq final'
    BY <1>1
      DEF Next, Progress, vars, files, List, Unrecord, Cleaned, Answer, SaveDownloading,
       Begin, BeginFails, Write, Refused, Finish, Abort, SaveFinalizing, Import,
       SaveVerified, Settle, Forget, Recheck, Recover, Apply, Launch, Install, Start, Fault,
       Crash, Older, Stage
  <2> QED BY <2>1, <2>2, <2>3, <2>4
<1> QED BY <1>1, InductiveInvariance, PTL DEF Spec, InstallerRetained

-----------------------------------------------------------------------------
(* What failed and interrupted attempts leave behind.                      *)

\* What each step leaves room for, misread files aside: the cleanup of a new attempt
\* keeps a partial file of the day and two installers of the week at most, and the
\* attempt adds one of each; a session beside that of the download in progress was
\* left open by an error, and a partial file that was deleted is held by one.
PartsFit ==
  /\ Cardinality(Parts \ misread) <= 2
  /\ step \in {"cleaning", "unrecording"} =>
       /\ Cardinality((Parts \ misread) \ doomed) <= 1
       /\ \A d \in (Parts \ misread) \ doomed : age[d] = 0
  /\ step \in {"starting", "opening"} =>
       /\ Cardinality(Parts \ misread) <= 1
       /\ \A d \in Parts \ misread : age[d] = 0

FinalsFit ==
  /\ Cardinality(final \ misread) <= 3
  /\ step \in {"cleaning", "unrecording"} /\ then = "starting" =>
       /\ Cardinality((final \ misread) \ doomed) <= 2
       /\ \A d \in (final \ misread) \ doomed : age[d] < 2
  /\ step \in {"starting", "opening"} => \A d \in final \ misread : age[d] < 2
  /\ step \in {"starting", "opening", "receiving", "aborting", "finalizing", "importing"}
       => Cardinality(final \ misread) <= 2

SessionsFit ==
  Cardinality(IF step \in {"receiving", "aborting"} THEN session \ {current} ELSE session)
    <= faults

DeletingFit ==
  /\ step = "receiving" => part[current] # "deleting"
  /\ \A d \in Downloads : part[d] = "deleting" => d \in session

LeftoversFit == PartsFit /\ FinalsFit /\ SessionsFit /\ DeletingFit

\* Sets of downloads, and the partial files among them, can be counted.
LEMMA Counted ==
  ASSUME NEW S \in SUBSET Downloads
  PROVE  IsFiniteSet(S) /\ Cardinality(S) \in Nat
<1>1. IsFiniteSet(Downloads)
  BY StagingAssumption, FS_Interval DEF Downloads
<1>2. IsFiniteSet(S)
  BY <1>1, FS_Subset
<1> QED BY <1>2, FS_CardinalityType

\* Fewer downloads are not more.
LEMMA Smaller ==
  ASSUME NEW S \in SUBSET Downloads, NEW T \in SUBSET S
  PROVE  Cardinality(T) <= Cardinality(S)
BY Counted, FS_Subset

\* One download more is one more at most.
LEMMA OneMore ==
  ASSUME NEW S \in SUBSET Downloads, NEW d \in Downloads, NEW T \in SUBSET (S \cup {d})
  PROVE  Cardinality(T) <= Cardinality(S) + 1
<1>1. S \cup {d} \in SUBSET Downloads
  OBVIOUS
<1>2. Cardinality(T) <= Cardinality(S \cup {d})
  BY <1>1, Smaller
<1>3. Cardinality(S \cup {d}) <= Cardinality(S) + 1
  BY Counted, FS_AddElement
<1>4. T \in SUBSET Downloads
  OBVIOUS
<1> QED BY <1>1, <1>2, <1>3, <1>4, Counted

\* Downloads that are all the same are one at most.
LEMMA AtMostOne ==
  ASSUME NEW S \in SUBSET Downloads, \A d, e \in S : d = e
  PROVE  Cardinality(S) <= 1
<1>1. CASE S = {}
  BY <1>1, FS_EmptySet
<1>2. ASSUME NEW d \in S
      PROVE  Cardinality(S) <= 1
  <2>1. S = {d}
    OBVIOUS
  <2> QED BY <2>1, FS_Singleton
<1> QED BY <1>1, <1>2

\* If no more than one download of a set is newer than any of it, it has two at most: of
\* three, two would be newer than the oldest.
LEMMA AtMostTwo ==
  ASSUME NEW S \in SUBSET Downloads, \A d \in S : Cardinality(Newer(d, S)) < 2
  PROVE  Cardinality(S) <= 2
<1> DEFINE Oldest(x, y, z) == x \in S /\ y \in Newer(x, S) /\ z \in Newer(x, S) /\ y # z
<1>1. ASSUME NEW x, NEW y, NEW z, Oldest(x, y, z)
      PROVE  FALSE
  <2>1. Newer(x, S) \in SUBSET Downloads /\ {y, z} \in SUBSET Newer(x, S)
    BY <1>1 DEF Newer
  <2>2. Cardinality({y, z}) = 2
    <3>1. IsFiniteSet({y}) /\ Cardinality({y}) = 1
      BY FS_Singleton
    <3>2. Cardinality({y} \cup {z}) = 2
      BY <1>1, <3>1, FS_AddElement
    <3>3. {y, z} = {y} \cup {z}
      OBVIOUS
    <3> QED BY <3>2, <3>3
  <2>3. Cardinality(Newer(x, S)) >= 2
    BY <2>1, <2>2, Smaller, Counted
  <2> QED BY <1>1, <2>1, <2>3, Counted
<1>2. ASSUME Cardinality(S) > 2
      PROVE  FALSE
  <2>1. PICK x \in S : TRUE
    BY <1>2, FS_EmptySet
  <2>2. Cardinality(S \ {x}) > 1
    BY <1>2, <2>1, Counted, FS_RemoveElement
  <2>3. PICK y \in S \ {x} : TRUE
    BY <2>2, FS_EmptySet
  <2>4. S \ {x} \in SUBSET Downloads
    OBVIOUS
  <2>5. Cardinality((S \ {x}) \ {y}) > 0
    BY <2>2, <2>3, <2>4, Counted, FS_RemoveElement
  <2>6. PICK z \in (S \ {x}) \ {y} : TRUE
    BY <2>5, FS_EmptySet
  <2>7. x \in Nat /\ y \in Nat /\ z \in Nat /\ x # y /\ x # z /\ y # z
    BY <2>1, <2>3, <2>6 DEF Downloads
  <2>8. Oldest(x, y, z) \/ Oldest(y, x, z) \/ Oldest(z, x, y)
    BY <2>1, <2>3, <2>6, <2>7 DEF Newer
  <2> QED BY <2>8, <1>1
<1> QED BY <1>2, Counted

\* The cleanup of a new attempt keeps no more than it has room for.
LEMMA ListRoom ==
  ASSUME TypeOK, List
  PROVE  /\ Cardinality((Parts' \ misread') \ doomed') <= 1
         /\ \A d \in (Parts' \ misread') \ doomed' : age'[d] = 0
         /\ then = "starting" =>
              /\ Cardinality((final' \ misread') \ doomed') <= 2
              /\ \A d \in (final' \ misread') \ doomed' : age'[d] < 2
<1>1. PICK listed \in SUBSET (Parts \cup final) :
        Listed(listed) /\ doomed' = OldParts(listed) \cup OldFinals(listed)
  BY DEF List
<1>2. (Parts \cup final) \ listed \subseteq misread'
  BY <1>1, Listing
<1>3. Parts' = Parts /\ UNCHANGED <<final, age>>
  BY DEF List, files, Parts
<1>4. \A d \in Downloads : age[d] \in 0 .. 3 /\ d # 0 /\ d \in Nat
  BY DEF TypeOK, Downloads
<1> DEFINE keptParts == (Parts \ misread') \ doomed'
           keptFinals == (final \ misread') \ doomed'
           others == {d \in (final \cap listed) \ {Protected} : age[d] < 2}
<1>5. keptParts \in SUBSET Downloads /\ keptFinals \in SUBSET Downloads
  BY DEF Parts, TypeOK
<1>6. \A d \in keptParts :
        d \in Parts \cap listed /\ age[d] = 0 /\ Newer(d, Parts \cap listed) = {}
  <2>1. \A d \in keptParts : d \in Parts \cap listed /\ d \notin OldParts(listed)
    BY <1>1, <1>2
  <2>2. \A d \in keptParts : ~(age[d] >= 1) /\ Newer(d, Parts \cap listed) = {}
    BY <2>1 DEF OldParts
  <2>3. \A d \in keptParts : age[d] \in 0 .. 3
    BY <1>4, <1>5
  <2> QED BY <2>1, <2>2, <2>3
<1>7. Cardinality(keptParts) <= 1
  <2>1. ASSUME NEW d \in keptParts, NEW e \in keptParts
        PROVE  d = e
    <3>1. ~(e > d) /\ ~(d > e)
      BY <1>6 DEF Newer
    <3>2. d \in Nat /\ e \in Nat
      BY <1>4, <1>5
    <3> QED BY <3>1, <3>2
  <2> HIDE DEF keptParts
  <2> QED BY <1>5, <2>1, AtMostOne
<1>8. ASSUME then = "starting"
      PROVE  Cardinality(keptFinals) <= 2 /\ \A d \in keptFinals : age[d] < 2
  <2>1. \A d \in keptFinals : d \in final \cap listed /\ d \notin OldFinals(listed)
    BY <1>1, <1>2
  <2>2. Protected = 0
    BY <1>8 DEF Protected
  <2>3. \A d \in keptFinals : ~(age[d] >= 2 \/ Cardinality(Newer(d, others)) >= 2)
    BY <1>4, <1>5, <2>1, <2>2 DEF OldFinals
  <2>4. ASSUME NEW d \in keptFinals
        PROVE  age[d] < 2
    <3>1. ~(age[d] >= 2)
      BY <2>3
    <3>2. age[d] \in 0 .. 3
      BY <1>4, <1>5
    <3> HIDE DEF keptFinals
    <3> QED BY <3>1, <3>2
  <2>5. keptFinals \in SUBSET others
    BY <1>4, <1>5, <2>1, <2>2, <2>4
  <2>6. others \in SUBSET Downloads
    BY DEF TypeOK
  <2>7. ASSUME NEW d \in keptFinals
        PROVE  Cardinality(Newer(d, keptFinals)) < 2
    <3>1. ~(Cardinality(Newer(d, others)) >= 2)
      BY <2>3
    <3> HIDE DEF others, keptFinals
    <3>2. /\ Newer(d, keptFinals) \in SUBSET Newer(d, others)
          /\ Newer(d, others) \in SUBSET Downloads
          /\ Newer(d, keptFinals) \in SUBSET Downloads
      BY <1>5, <2>5, <2>6 DEF Newer
    <3>3. Cardinality(Newer(d, keptFinals)) <= Cardinality(Newer(d, others))
      BY <3>2, Smaller
    <3> QED BY <3>1, <3>2, <3>3, Counted
  <2> HIDE DEF keptFinals
  <2> QED BY <1>5, <2>4, <2>7, AtMostTwo
<1> QED BY <1>3, <1>6, <1>7, <1>8

\* A file that was misread stays so, and calls that failed are counted.
LEMMA Growing ==
  ASSUME Inductive, Inductive', Next
  PROVE  misread \subseteq misread' /\ faults \in Nat /\ faults' \in Nat /\ faults' >= faults
<1>1. faults \in Nat /\ faults' \in Nat
  BY StagingAssumption DEF Inductive, TypeOK
<1>2. CASE UNCHANGED <<misread, faults>>
  BY <1>1, <1>2
<1>3. CASE \/ List \/ (\E d \in Downloads : Delete(d)) \/ Settle \/ Remove \/ Recheck
           \/ (\E v \in Versions : Stage(v)) \/ Recover
  BY <1>1, <1>3
  DEF List, Listed, Delete, Settle, Remove, Recheck, Stage, Recover, Looked, Misread
<1>4. CASE BeginFails \/ Fault
  BY <1>1, <1>4 DEF BeginFails, Fault
<1> QED BY <1>2, <1>3, <1>4
     DEF Next, Progress, Unrecord, Cleaned, Answer, SaveDownloading, Begin, Finish, Abort,
      SaveFinalizing, Import, SaveVerified, Forget, Launch, Write, Refused, Apply, Install,
      Start, Crash, Older, limits

\* A deleted file that is listed still was misread.
LEMMA Deleted ==
  ASSUME TypeOK, NEW d \in Downloads, Delete(d)
  PROVE  /\ Parts' \subseteq Parts /\ final' \subseteq final
         /\ d \in Parts' \cup final' => d \in misread'
<1>1. PICK found \in BOOLEAN :
        Looked(d, TRUE, found) /\ IF found THEN Gone(d) ELSE UNCHANGED <<part, final>>
  BY DEF Delete
<1>2. CASE found
  BY <1>1, <1>2 DEF Gone, Parts, TypeOK
<1>3. CASE ~found
  BY <1>1, <1>3 DEF Looked, Misread, Parts
<1> QED BY <1>2, <1>3

\* Each attempt adds one partial file to the one that its cleanup left.
LEMMA PartsStep ==
  ASSUME Inductive, Inductive', PartsFit, Next
  PROVE  PartsFit'
<1> USE DEF PartsFit
<1>1. /\ Parts \in SUBSET Downloads /\ Parts' \in SUBSET Downloads
      /\ Parts \ misread \in SUBSET Downloads /\ Parts' \ misread' \in SUBSET Downloads
      /\ (Parts \ misread) \ doomed \in SUBSET Downloads
      /\ (Parts' \ misread') \ doomed' \in SUBSET Downloads
      /\ misread \subseteq misread'
  BY Growing DEF Parts
<1> DEFINE Bounded == {"cleaning", "unrecording", "starting", "opening"}
<1>2. CASE Parts' \subseteq Parts /\ step' \notin Bounded
  <2>1. Parts' \ misread' \in SUBSET (Parts \ misread)
    BY <1>1, <1>2
  <2> QED BY <1>1, <1>2, <2>1, Smaller, Counted
<1>3. CASE List
  <2>1. Cardinality(Parts' \ misread') <= Cardinality(Parts \ misread)
    <3>1. Parts' \ misread' \in SUBSET (Parts \ misread)
      BY <1>1, <1>3 DEF List, files, Parts
    <3> QED BY <1>1, <3>1, Smaller
  <2>2. step' = "cleaning"
    BY <1>3 DEF List
  <2> QED BY <1>1, <1>3, <2>1, <2>2, ListRoom, Counted DEF Inductive
<1>4. ASSUME NEW d \in Downloads, Delete(d)
      PROVE  PartsFit'
  <2>1. /\ doomed' = doomed \ {d} /\ step = "cleaning" /\ step' \in {"cleaning", "unrecording"}
        /\ age' = age
    BY <1>4 DEF Delete
  <2>2. /\ Parts' \ misread' \in SUBSET (Parts \ misread)
        /\ (Parts' \ misread') \ doomed' \in SUBSET ((Parts \ misread) \ doomed)
    BY <1>1, <1>4, <2>1, Deleted DEF Inductive
  <2>3. /\ Cardinality(Parts' \ misread') <= Cardinality(Parts \ misread)
        /\ Cardinality((Parts' \ misread') \ doomed') <= Cardinality((Parts \ misread) \ doomed)
    BY <1>1, <2>2, Smaller
  <2> QED BY <1>1, <2>1, <2>2, <2>3, Counted
<1>5. CASE Unrecord
  BY <1>5 DEF Unrecord, files, limits, Parts
<1>6. CASE Cleaned
  <2>1. /\ Parts' = Parts /\ misread' = misread /\ age' = age /\ doomed = {}
        /\ step' = then /\ step = "cleaning"
    BY <1>6 DEF Cleaned, files, limits, Parts
  <2>2. /\ (Parts \ misread) \ doomed = Parts \ misread
        /\ then \in {"starting", "rechecking", "answering"}
    BY <2>1 DEF Inductive, TypeOK
  <2> QED BY <2>1, <2>2
<1>7. CASE SaveDownloading
  BY <1>7 DEF SaveDownloading, files, limits, Parts
<1>8. CASE Begin \/ BeginFails
  <2>1. /\ step = "opening" /\ step' \in {"receiving", "idle"} /\ current \in Downloads
        /\ part' \in {part, [part EXCEPT ![current] = "other"]}
    BY <1>8 DEF Begin, BeginFails, Goes, Inductive, AttemptFits, Attempt, TypeOK, Downloads
  <2>2. Parts' \in SUBSET (Parts \cup {current})
    BY <2>1 DEF Parts, Inductive, TypeOK
  <2>3. Parts' \ misread' \in SUBSET ((Parts \ misread) \cup {current})
    BY <1>1, <2>2
  <2>4. Cardinality(Parts' \ misread') <= Cardinality(Parts \ misread) + 1
    BY <1>1, <2>1, <2>3, OneMore
  <2> QED BY <1>1, <2>1, <2>4, Counted
<1>9. CASE \/ Write \/ Refused \/ Finish \/ Abort \/ SaveFinalizing \/ Import \/ SaveVerified
  <2>1. Parts' \subseteq Parts
    <3>1. CASE Write
      <4>1. current \in Parts
        BY <3>1, StagingAssumption DEF Write, Inductive, AttemptFits, Attempt, TypeOK, Downloads, Parts
      <4> QED BY <3>1, <4>1 DEF Write, Inductive, Parts, TypeOK
    <3>2. CASE \/ Refused \/ Finish \/ Abort \/ SaveFinalizing \/ Import \/ SaveVerified
      BY <3>2
      DEF Refused, Finish, Abort, SaveFinalizing, Import, SaveVerified, files, Parts, Inductive,
          TypeOK
    <3> QED BY <1>9, <3>1, <3>2
  <2>2. step' \notin Bounded
    BY <1>9 DEF Write, Refused, Finish, Abort, SaveFinalizing, Import, SaveVerified, Goes
  <2> QED BY <1>2, <2>1, <2>2
<1>10. CASE \/ (\E v \in Versions : Stage(v)) \/ Recover \/ Settle \/ Remove \/ Forget \/ Recheck
            \/ Answer
  <2>1. Parts' \subseteq Parts
    BY <1>10
    DEF Stage, Recover, Settle, Remove, Gone, Forget, Recheck, Answer, files, Parts, Inductive,
        TypeOK
  <2>2. step' \notin Bounded
    BY <1>10
    DEF Stage, StageAgain, StageAnew, Recover, Sort, Settle, Resume, Remove, Forget, Recheck,
        Answer, Clean, Goes
  <2> QED BY <1>2, <2>1, <2>2
<1>11. CASE \/ Apply \/ Launch \/ Install \/ Start \/ Fault \/ Crash
            \/ (\E d \in Downloads : Older(d))
  <2>1. Parts' \subseteq Parts
    BY <1>11
    DEF Apply, Launch, Closed, Install, Start, Fault, Crash, Older, files, Parts
  <2>2. step' \notin Bounded
    BY <1>11
    DEF Apply, Launch, Closed, Install, Start, Fault, Crash, Older, Goes, Inductive, OpenFits
  <2> QED BY <1>2, <2>1, <2>2
<1> QED BY <1>3, <1>4, <1>5, <1>6, <1>7, <1>8, <1>9, <1>10, <1>11 DEF Next, Progress

\* And one installer to the two that its cleanup left.
LEMMA FinalsStep ==
  ASSUME Inductive, Inductive', FinalsFit, Next
  PROVE  FinalsFit'
<1> USE DEF FinalsFit
<1> DEFINE Attempting == {"starting", "opening", "receiving", "aborting", "finalizing", "importing"}
           Bounded == {"cleaning", "unrecording", "starting", "opening"}
<1>1. /\ final \in SUBSET Downloads /\ final' \in SUBSET Downloads
      /\ final \ misread \in SUBSET Downloads /\ final' \ misread' \in SUBSET Downloads
      /\ (final \ misread) \ doomed \in SUBSET Downloads
      /\ (final' \ misread') \ doomed' \in SUBSET Downloads
      /\ misread \subseteq misread'
  BY Growing DEF Inductive, TypeOK
<1>2. CASE /\ final' \subseteq final /\ step' \notin Bounded
           /\ step' \in Attempting => step \in Attempting
  <2>1. final' \ misread' \in SUBSET (final \ misread)
    BY <1>1, <1>2
  <2>2. Cardinality(final' \ misread') <= Cardinality(final \ misread)
    BY <1>1, <2>1, Smaller
  <2> QED BY <1>1, <1>2, <2>2, Counted
<1>3. CASE List
  <2>1. final' \ misread' \in SUBSET (final \ misread) /\ step' = "cleaning" /\ then' = then
    BY <1>1, <1>3 DEF List, files
  <2>2. Cardinality(final' \ misread') <= Cardinality(final \ misread)
    BY <1>1, <2>1, Smaller
  <2> QED BY <1>1, <1>3, <2>1, <2>2, ListRoom, Counted DEF Inductive
<1>4. ASSUME NEW d \in Downloads, Delete(d)
      PROVE  FinalsFit'
  <2>1. /\ doomed' = doomed \ {d} /\ step = "cleaning" /\ step' \in {"cleaning", "unrecording"}
        /\ age' = age /\ then' = then
    BY <1>4 DEF Delete
  <2>2. /\ final' \ misread' \in SUBSET (final \ misread)
        /\ (final' \ misread') \ doomed' \in SUBSET ((final \ misread) \ doomed)
    BY <1>1, <1>4, <2>1, Deleted DEF Inductive
  <2>3. /\ Cardinality(final' \ misread') <= Cardinality(final \ misread)
        /\ Cardinality((final' \ misread') \ doomed') <= Cardinality((final \ misread) \ doomed)
    BY <1>1, <2>2, Smaller
  <2> QED BY <1>1, <2>1, <2>2, <2>3, Counted
<1>5. CASE Unrecord
  BY <1>5 DEF Unrecord, files, limits
<1>6. CASE Cleaned
  <2>1. /\ final' = final /\ misread' = misread /\ age' = age /\ doomed = {}
        /\ step' = then /\ step = "cleaning"
    BY <1>6 DEF Cleaned, files, limits
  <2>2. /\ (final \ misread) \ doomed = final \ misread
        /\ then \in {"starting", "rechecking", "answering"}
    BY <2>1 DEF Inductive, TypeOK
  <2> QED BY <2>1, <2>2
<1>7. CASE SaveDownloading
  BY <1>7 DEF SaveDownloading, files, limits
<1>8. CASE Import
  <2>1. /\ step = "importing" /\ step' \in {"saving", "idle"} /\ current \in Downloads
        /\ final' \in SUBSET (final \cup {current})
    BY <1>8 DEF Import, Goes, Inductive, AttemptFits, Attempt, TypeOK, Downloads
  <2>2. final' \ misread' \in SUBSET ((final \ misread) \cup {current})
    BY <1>1, <2>1
  <2>3. Cardinality(final' \ misread') <= Cardinality(final \ misread) + 1
    BY <1>1, <2>1, <2>2, OneMore
  <2> QED BY <1>1, <2>1, <2>3, Counted
<1>9. CASE \/ Begin \/ BeginFails \/ Write \/ Refused \/ Finish \/ Abort \/ SaveFinalizing
           \/ SaveVerified
  <2>1. /\ final' = final /\ step' \notin Bounded
        /\ step' \in Attempting => step \in Attempting
    BY <1>9
    DEF Begin, BeginFails, Write, Refused, Finish, Abort, SaveFinalizing, SaveVerified, Goes,
        files
  <2> QED BY <1>2, <2>1
<1>10. CASE \/ (\E v \in Versions : Stage(v)) \/ Recover \/ Settle \/ Remove \/ Forget \/ Recheck
            \/ Answer
  <2>1. final' \subseteq final
    BY <1>10 DEF Stage, Recover, Settle, Remove, Gone, Forget, Recheck, Answer, files
  <2>2. step' \notin Bounded \cup Attempting
    BY <1>10
    DEF Stage, StageAgain, StageAnew, Recover, Sort, Settle, Resume, Remove, Forget, Recheck,
        Answer, Clean, Goes
  <2> QED BY <1>2, <2>1, <2>2
<1>11. CASE \/ Apply \/ Launch \/ Install \/ Start \/ Fault \/ Crash
            \/ (\E d \in Downloads : Older(d))
  <2>1. final' = final /\ step' \notin Bounded \cup Attempting
    BY <1>11
    DEF Apply, Launch, Closed, Install, Start, Fault, Crash, Older, Goes, Inductive, OpenFits,
        files
  <2> QED BY <1>2, <2>1
<1> QED BY <1>3, <1>4, <1>5, <1>6, <1>7, <1>8, <1>9, <1>10, <1>11 DEF Next, Progress

\* Only an abort that fails leaves a session open, and that is an error.
LEMMA SessionsStep ==
  ASSUME Inductive, Inductive', SessionsFit, Next
  PROVE  SessionsFit'
<1> USE DEF SessionsFit
<1> DEFINE Busy == {"receiving", "aborting"}
<1>1. /\ session \in SUBSET Downloads /\ session' \in SUBSET Downloads
      /\ session \ {current} \in SUBSET Downloads
      /\ session' \ {current'} \in SUBSET Downloads
      /\ faults \in Nat /\ faults' \in Nat /\ faults' >= faults
  BY Growing DEF Inductive, TypeOK
<1>2. CASE Begin
  <2>1. /\ session' \ {current'} \in SUBSET session
        /\ step = "opening" /\ step' = "receiving"
    BY <1>2 DEF Begin
  <2>2. Cardinality(session' \ {current'}) <= Cardinality(session)
    BY <1>1, <2>1, Smaller
  <2> QED BY <1>1, <2>1, <2>2, Counted
<1>3. CASE Finish \/ Abort
  <2>1. step \in Busy /\ step' \notin Busy /\ session' = session \ {current} /\ faults' = faults
    BY <1>3 DEF Finish, Abort, Goes, limits
  <2> QED BY <2>1
<1>4. CASE Fault
  <2>1. step' = "idle" /\ session' = session /\ faults' = faults + 1 /\ step # "receiving"
    BY <1>4 DEF Fault, Goes
  <2>2. CASE step = "aborting"
    <3>1. current \in Downloads /\ session \in SUBSET ((session \ {current}) \cup {current})
      BY <2>2 DEF Inductive, AttemptFits, Attempt, TypeOK, Downloads
    <3>2. Cardinality(session) <= Cardinality(session \ {current}) + 1
      BY <1>1, <3>1, OneMore
    <3> QED BY <1>1, <2>1, <2>2, <3>2, Counted
  <2>3. CASE step \notin Busy
    BY <1>1, <2>1, <2>3, Counted
  <2> QED BY <2>1, <2>2, <2>3
<1>5. CASE Crash \/ Launch
  <2>1. session' = {} /\ step' = "idle"
    BY <1>5 DEF Crash, Launch, Closed, Goes
  <2> QED BY <1>1, <2>1, FS_EmptySet
<1>6. CASE Write \/ Refused
  <2>1. \/ session' = session /\ current' = current /\ faults' = faults /\ step \in Busy /\ step' \in Busy
        \/ session' = session /\ faults' = faults /\ step \notin Busy /\ step' \notin Busy
    BY <1>6 DEF Write, Refused, Goes, limits
  <2> QED BY <2>1
<1>7. CASE session' = session /\ step \notin Busy /\ step' \notin Busy
  BY <1>1, <1>7, Counted
<1>8. CASE \/ List \/ (\E d \in Downloads : Delete(d)) \/ Unrecord \/ Cleaned \/ Answer
           \/ SaveDownloading \/ BeginFails \/ SaveFinalizing \/ Import \/ SaveVerified
  <2>1. session' = session /\ step \notin Busy /\ step' \notin Busy
    BY <1>8
    DEF List, Delete, Unrecord, Cleaned, Answer, SaveDownloading, BeginFails, SaveFinalizing,
        Import, SaveVerified, Goes, Inductive, TypeOK
  <2> QED BY <1>7, <2>1
<1>9. CASE \/ (\E v \in Versions : Stage(v)) \/ Recover \/ Settle \/ Remove \/ Forget \/ Recheck
           \/ Apply
  <2>1. session' = session /\ step \notin Busy /\ step' \notin Busy
    BY <1>9
    DEF Stage, StageAgain, StageAnew, Recover, Sort, Settle, Resume, Remove, Forget, Recheck,
        Apply, Clean
  <2> QED BY <1>7, <2>1
<1>10. CASE Install \/ Start \/ (\E d \in Downloads : Older(d))
  <2>1. session' = session /\ step = "idle" /\ step' = "idle"
    BY <1>10 DEF Install, Start, Older, Inductive, OpenFits
  <2> QED BY <1>7, <2>1
<1> QED BY <1>2, <1>3, <1>4, <1>5, <1>6, <1>8, <1>9, <1>10 DEF Next, Progress

\* A partial file that was deleted goes with the session that holds it.
LEMMA DeletingStep ==
  ASSUME Inductive, DeletingFit, Next
  PROVE  DeletingFit'
<1> USE DEF DeletingFit
<1>0. part \in [Downloads -> {"none", "other", "whole", "deleting"}]
  BY DEF Inductive, TypeOK
<1>1. ASSUME NEW d, Gone(d), session' = session, step' # "receiving"
      PROVE  DeletingFit'
  BY <1>0, <1>1 DEF Gone, Parts
<1>2. CASE UNCHANGED <<part, session>> /\ step' # "receiving"
  BY <1>2
<1>3. CASE (\E d \in Downloads : Delete(d)) \/ Remove
  BY <1>1, <1>2, <1>3 DEF Delete, Remove
<1>4. CASE Begin \/ BeginFails \/ Write \/ Finish \/ Abort \/ Import
  <2>1. current \in Downloads
    BY <1>4
    DEF Begin, BeginFails, Write, Finish, Abort, Import, Inductive, AttemptFits, Attempt,
        TypeOK, Downloads
  <2> QED BY <1>0, <1>4, <2>1 DEF Begin, BeginFails, Write, Finish, Abort, Import, Goes, files
<1>5. CASE Launch \/ Crash
  <2>1. \A d \in Downloads : part'[d] # "deleting"
    BY <1>5 DEF Launch, Crash, Closed, Parts
  <2>2. step' # "receiving"
    BY <1>5 DEF Launch, Crash, Closed, Goes
  <2> QED BY <2>1, <2>2
<1>6. CASE \/ List \/ Unrecord \/ Cleaned \/ Answer \/ SaveDownloading \/ SaveFinalizing
           \/ SaveVerified \/ Refused \/ Fault
  <2>1. UNCHANGED <<part, session>> /\ step' # "receiving"
    BY <1>6
    DEF List, Unrecord, Cleaned, Answer, SaveDownloading, SaveFinalizing, SaveVerified,
        Refused, Fault, Goes, files, Inductive, TypeOK
  <2> QED BY <1>2, <2>1
<1>7. CASE \/ (\E v \in Versions : Stage(v)) \/ Recover \/ Settle \/ Forget \/ Recheck
           \/ Apply \/ Install \/ Start \/ (\E d \in Downloads : Older(d))
  <2>1. UNCHANGED <<part, session>> /\ step' # "receiving"
    BY <1>7
    DEF Stage, StageAgain, StageAnew, Recover, Sort, Settle, Resume, Forget, Recheck, Apply,
        Install, Start, Older, Clean, files, Inductive, OpenFits
  <2> QED BY <1>2, <2>1
<1> QED BY <1>3, <1>4, <1>5, <1>6, <1>7 DEF Next, Progress

\* Misread files aside, a new attempt begins beside one partial file of the day and two
\* installers of the week at most, whatever the number of attempts that failed or were
\* interrupted, and it adds one of each; there are no more native sessions than calls
\* that failed, and only they keep partial files that were deleted.
THEOREM LeftoversAreBounded == Spec => []LeftoversBounded
<1>1. Init => LeftoversFit
  <2> SUFFICES ASSUME Init PROVE LeftoversFit
    OBVIOUS
  <2>1. /\ Parts = {} /\ final = {} /\ session = {} /\ step = "idle" /\ faults = 0
        /\ misread = {} /\ \A d \in Downloads : part[d] = "none"
    BY DEF Init, Parts
  <2>2. Parts \ misread = {} /\ final \ misread = {}
    BY <2>1
  <2> QED BY <2>1, <2>2, FS_EmptySet
      DEF LeftoversFit, PartsFit, FinalsFit, SessionsFit, DeletingFit
<1>2. Inductive /\ LeftoversFit /\ [Next]_vars => LeftoversFit'
  <2> SUFFICES ASSUME Inductive, LeftoversFit, [Next]_vars PROVE LeftoversFit'
    OBVIOUS
  <2>1. Inductive'
    BY NextInductive
  <2>2. CASE Next
    BY <2>1, <2>2, PartsStep, FinalsStep, SessionsStep, DeletingStep DEF LeftoversFit
  <2>3. CASE UNCHANGED vars
    BY <2>3
    DEF vars, files, limits, LeftoversFit, PartsFit, FinalsFit, SessionsFit, DeletingFit, Parts
  <2> QED BY <2>2, <2>3
<1>3. LeftoversFit => LeftoversBounded
  BY DEF LeftoversFit, PartsFit, FinalsFit, SessionsFit, DeletingFit, LeftoversBounded
<1> QED BY <1>1, <1>2, <1>3, InductiveInvariance, PTL DEF Spec
=============================================================================
