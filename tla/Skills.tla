------------------------------- MODULE Skills -------------------------------
(***************************************************************************)
(* One skill on its way from a repository to the agent: install.py,        *)
(* index.py and registry.py of core/skills, and api/routes/skills.py.      *)
(*                                                                         *)
(* Files are written one after the other, so an action is a write.  The    *)
(* user does one thing at a time; meanwhile the author pushes, files are   *)
(* edited by hand and the process dies.                                    *)
(***************************************************************************)
EXTENDS Integers, Sequences, FiniteSets

CONSTANT MaxCommits  \* bound: the commits of the repository

ASSUME SkillsAssumption == MaxCommits \in Nat \ {0}

\* In ascending precedence: the last that has the skill is the one in use.
Layers == <<"builtin", "user", "project">>
LayerNames == {Layers[i] : i \in DOMAIN Layers}

\* A text is the commit it came from; Own was written on this machine.
Own == -1
Absent == 0

VARIABLES
    upstream,  \* the commit the stored ref resolves to
    stagedSkill,    \* SKILL.md and SOURCE.json under skills-pending
    skillFile,      \* the text each layer has
    index,     \* installed.json: the recorded commit
    view,      \* what the registry's cache answers: a layer, "none", or "unread"
    shown,     \* the commit of the diff the user is looking at
    applied,   \* the commit the last update wrote, and the one shown for it
    job,       \* the operation under way
    torn,      \* a write was lost, or the file is not what was installed
    astray     \* an update or a removal hit another layer's file

skillVars == <<upstream, stagedSkill, skillFile, index, view, shown, applied, job, torn, astray>>

Unstaged == [text |-> Absent, sha |-> Absent]
NoJob == [at |-> "idle", sha |-> Absent, text |-> Absent, layer |-> "none"]

ResolveLayer(files) ==
    LET having == {i \in DOMAIN Layers : files[Layers[i]] # Absent}
    IN  IF having = {} THEN "none" ELSE Layers[CHOOSE i \in having : \A j \in having : j <= i]

\* The registry scans when its cache is empty.
Got == IF view = "unread" THEN ResolveLayer(skillFile) ELSE view

SkTypeOK ==
    /\ upstream \in 1..MaxCommits
    /\ stagedSkill \in [text : 0..MaxCommits, sha : 0..MaxCommits]
    /\ skillFile \in [LayerNames -> -1..MaxCommits]
    /\ index \in 0..MaxCommits
    /\ view \in LayerNames \cup {"none", "unread"}
    /\ job.layer \in LayerNames \cup {"none"}

SkInit ==
    /\ upstream = 1 /\ stagedSkill = Unstaged /\ index = Absent
    /\ skillFile \in [LayerNames -> {Absent, Own}]
    /\ skillFile["user"] = Absent /\ skillFile["project"] = Absent
    /\ view = "unread" /\ shown = Absent /\ applied = <<Absent, Absent>>
    /\ job = NoJob /\ torn = FALSE /\ astray = FALSE

Free == job.at = "idle"
Doing(what) == job.at = what

-----------------------------------------------------------------------------
(* preview: the ref is pinned, then read at the pin, then staged.           *)

Preview ==
    /\ Free
    /\ job' = [NoJob EXCEPT !.at = "text", !.sha = upstream]
    /\ UNCHANGED <<upstream, stagedSkill, skillFile, index, view, shown, applied, torn, astray>>

StageText ==
    /\ Doing("text")
    /\ stagedSkill' = [stagedSkill EXCEPT !.text = job.sha]
    /\ job' = [job EXCEPT !.at = "stamp"]
    /\ UNCHANGED <<upstream, skillFile, index, view, shown, applied, torn, astray>>

StageStamp ==
    /\ Doing("stamp")
    /\ stagedSkill' = [stagedSkill EXCEPT !.sha = job.sha]
    /\ job' = NoJob
    /\ UNCHANGED <<upstream, skillFile, index, view, shown, applied, torn, astray>>

\* discard
Discard ==
    /\ Free /\ stagedSkill.text # Absent /\ stagedSkill.sha # Absent
    /\ stagedSkill' = Unstaged
    /\ UNCHANGED <<upstream, skillFile, index, view, shown, applied, job, torn, astray>>

-----------------------------------------------------------------------------
(* approve: the file, the record, and only then the staged copy.            *)

Approve ==
    /\ Free /\ stagedSkill.text # Absent /\ stagedSkill.sha # Absent
    /\ job' = [at |-> "install", sha |-> stagedSkill.sha, text |-> stagedSkill.text, layer |-> "user"]
    /\ UNCHANGED <<upstream, stagedSkill, skillFile, index, view, shown, applied, torn, astray>>

InstallFile ==
    /\ Doing("install")
    /\ skillFile' = [skillFile EXCEPT !["user"] = job.text]
    /\ job' = [job EXCEPT !.at = "record"]
    /\ UNCHANGED <<upstream, stagedSkill, index, view, shown, applied, torn, astray>>

\* install_index.record; when it fails the operation ends with an error.
RecordInstall ==
    /\ Doing("record")
    /\ \/ /\ index' = job.sha
          /\ job' = [job EXCEPT !.at = "unstage"]
          /\ UNCHANGED torn
       \/ /\ torn' = TRUE
          /\ job' = NoJob
          /\ UNCHANGED index
    /\ UNCHANGED <<upstream, stagedSkill, skillFile, view, shown, applied, astray>>

Unstage ==
    /\ Doing("unstage")
    /\ stagedSkill' = Unstaged
    /\ view' = "unread"
    /\ job' = NoJob
    /\ UNCHANGED <<upstream, skillFile, index, shown, applied, torn, astray>>

-----------------------------------------------------------------------------
(* check_update and apply_update.                                           *)

CheckUpdate ==
    /\ Free /\ index # Absent /\ Got # "none"
    /\ upstream # index /\ skillFile[Got] # Absent
    /\ shown' = upstream
    /\ view' = Got
    /\ UNCHANGED <<upstream, stagedSkill, skillFile, index, applied, job, torn, astray>>

\* It checks once more, and takes what the ref resolves to by then.
ApplyUpdate ==
    /\ Free /\ index # Absent /\ Got # "none" /\ shown # Absent
    /\ view' = Got
    /\ IF upstream = index \/ skillFile[Got] = Absent
       THEN UNCHANGED job
       ELSE job' = [at |-> "update", sha |-> upstream, text |-> upstream, layer |-> Got]
    /\ UNCHANGED <<upstream, stagedSkill, skillFile, index, shown, applied, torn, astray>>

UpdateFile ==
    /\ Doing("update")
    /\ skillFile' = [skillFile EXCEPT ![job.layer] = job.text]
    /\ applied' = <<job.sha, shown>>
    /\ shown' = Absent
    /\ astray' = (astray \/ job.layer # "user")
    /\ job' = [job EXCEPT !.at = "pin"]
    /\ UNCHANGED <<upstream, stagedSkill, index, view, torn>>

Pin ==
    /\ Doing("pin")
    /\ \/ index' = job.sha /\ view' = "unread" /\ UNCHANGED torn
       \/ torn' = TRUE /\ UNCHANGED <<index, view>>
    /\ job' = NoJob
    /\ UNCHANGED <<upstream, stagedSkill, skillFile, shown, applied, astray>>

-----------------------------------------------------------------------------
(* SkillRegistry.write and delete, uninstall.                               *)

\* In the user layer, or where the skill that is edited is.
Write(layer) ==
    /\ Free
    /\ layer = "user" \/ (layer = Got /\ layer # "builtin")
    /\ skillFile' = [skillFile EXCEPT ![layer] = Own]
    /\ view' = ResolveLayer(skillFile')
    /\ UNCHANGED <<upstream, stagedSkill, index, shown, applied, job, torn, astray>>

\* The file of the layer the name resolves to, and any record of the name.
Uninstall ==
    /\ Free /\ Got # "builtin"
    /\ IF Got = "none" THEN UNCHANGED <<skillFile, view, astray>>
       ELSE /\ skillFile' = [skillFile EXCEPT ![Got] = Absent]
            /\ view' = "unread"
            /\ astray' = (astray \/ (Got # "user" /\ index # Absent))
    /\ job' = [NoJob EXCEPT !.at = "forget"]
    /\ UNCHANGED <<upstream, stagedSkill, index, shown, applied, torn>>

ForgetInstall ==
    /\ Doing("forget")
    /\ \/ index' = Absent /\ UNCHANGED torn
       \/ index # Absent /\ torn' = TRUE /\ UNCHANGED index
    /\ job' = NoJob
    /\ UNCHANGED <<upstream, stagedSkill, skillFile, view, shown, applied, astray>>

\* reload, and whoever reads the registry after it.
Reload ==
    /\ view' \in {"unread", ResolveLayer(skillFile)} \ {view}
    /\ view = "unread" \/ view' = "unread"
    /\ UNCHANGED <<upstream, stagedSkill, skillFile, index, shown, applied, job, torn, astray>>

-----------------------------------------------------------------------------
(* The surroundings.                                                        *)

Push ==
    /\ upstream < MaxCommits
    /\ upstream' = upstream + 1
    /\ UNCHANGED <<stagedSkill, skillFile, index, view, shown, applied, job, torn, astray>>

\* The repository under analysis brings a skill of the name, or drops it; a
\* text editor is a valid way to change one.
ByHand ==
    /\ \/ \E text \in {Absent, Own} : skillFile' = [skillFile EXCEPT !["project"] = text] /\ UNCHANGED torn
       \/ skillFile' = [skillFile EXCEPT !["user"] = Absent] /\ torn' = TRUE
    /\ UNCHANGED <<upstream, stagedSkill, index, view, shown, applied, job, astray>>

\* A write fails or the process ends, with an operation half done.
Dies ==
    /\ ~Free
    /\ job' = NoJob /\ view' = "unread"
    /\ torn' = (torn \/ job.at \in {"stamp", "record", "pin", "forget"})
    /\ UNCHANGED <<upstream, stagedSkill, skillFile, index, shown, applied, astray>>

-----------------------------------------------------------------------------
SkNext ==
    \/ Preview \/ StageText \/ StageStamp \/ Discard
    \/ Approve \/ InstallFile \/ RecordInstall \/ Unstage
    \/ CheckUpdate \/ ApplyUpdate \/ UpdateFile \/ Pin
    \/ Uninstall \/ ForgetInstall \/ Reload \/ Push \/ ByHand \/ Dies
    \/ \E layer \in LayerNames : Write(layer)

SkSpec == SkInit /\ [][SkNext]_skillVars
-----------------------------------------------------------------------------
(* Properties.                                                              *)

\* An approval takes the staged copy away only when file and record both have
\* it, so that a crash or a failed write "leaves the review standing".
ReviewStands ==
    [][Doing("unstage") /\ stagedSkill' = Unstaged /\ stagedSkill # Unstaged =>
          index = stagedSkill.sha /\ (skillFile["user"] = stagedSkill.text \/ torn)]_skillVars

\* The recorded commit is the one on disk, unless the file was written by hand,
\* a write was lost, or the skill was hidden behind one of the project.
PinIsWhatIsThere ==
    Free /\ ~torn /\ ~astray /\ index # Absent => skillFile["user"] \in {Own, index}

\* "The diff the user approved and the bytes written have to come from the same
\* fetch": what an update wrote is the commit whose diff was shown.
AppliesWhatWasShown == applied[1] = applied[2]

\* What was reviewed is what is recorded, and what is recorded is what runs.
InstallHolds == []PinIsWhatIsThere /\ ReviewStands

-----------------------------------------------------------------------------
(***************************************************************************)
(* And an analysis that recurs and is offered to become a skill:           *)
(* core/skills/promotion.py and the skill_candidates table of              *)
(* core/database.py.  Turns of several sessions count it on threads of     *)
(* their own; matching and counting are two transactions.                  *)
(***************************************************************************)
CONSTANTS
    Turners,    \* bound: the turns that count at a time
    Threshold,  \* SKILL_PROMOTION_THRESHOLD
    MaxRuns     \* bound: the runs of the analysis

ASSUME PromotionAssumption == IsFiniteSet(Turners) /\ Threshold \in Nat \ {0} /\ MaxRuns \in Nat

VARIABLES
    candidates,     \* the candidates of the analysis: occurrences, settled, offers
    newest,   \* the row with the latest last_seen, which matches first
    counter,  \* what each turn found; a row, 0 for none
    runs

promVars == <<candidates, newest, counter, runs>>

PromTypeOK ==
    /\ \A i \in DOMAIN candidates : candidates[i].occurrences \in 0..MaxRuns /\ candidates[i].offers \in 0..MaxRuns
    /\ newest \in 0..Len(candidates)
    /\ counter \in [Turners -> {<<"idle">>} \cup ({"matched"} \X (0..MaxRuns) \X BOOLEAN)]

PromInit == candidates = <<>> /\ newest = 0 /\ counter = [t \in Turners |-> <<"idle">>] /\ runs = 0

\* _match, with the settled rows, and what the row said of itself.
Match(t) ==
    /\ counter[t] = <<"idle">> /\ runs < MaxRuns
    /\ runs' = runs + 1
    /\ counter' = [counter EXCEPT ![t] = <<"matched", newest, newest # 0 /\ candidates[newest].settled>>]
    /\ UNCHANGED <<candidates, newest>>

\* Faulty variant: every occurrence from the threshold on is offered.
CountEager(t) ==
    LET row == counter[t][2]
    IN  /\ counter[t] # <<"idle">>
        /\ candidates' = IF row = 0 THEN Append(candidates, [occurrences |-> 1, settled |-> FALSE,
                                                 offers |-> IF 1 >= Threshold THEN 1 ELSE 0])
                   ELSE [candidates EXCEPT ![row] = [@ EXCEPT !.occurrences = @ + 1,
                            !.offers = IF ~counter[t][3] /\ candidates[row].occurrences + 1 >= Threshold THEN @ + 1 ELSE @]]
        /\ newest' = IF row = 0 THEN Len(candidates') ELSE row
        /\ counter' = [counter EXCEPT ![t] = <<"idle">>]
        /\ UNCHANGED runs

\* The first occurrence makes a row; another adds one to it and reads the sum
\* in the same transaction.  The one that reaches the threshold is offered.
Count(t) ==
    LET row == counter[t][2]
        sum == IF row = 0 THEN 1 ELSE candidates[row].occurrences + 1
        offer == IF sum = Threshold /\ ~counter[t][3] THEN 1 ELSE 0
    IN  /\ counter[t] # <<"idle">>
        /\ candidates' = IF row = 0 THEN Append(candidates, [occurrences |-> 1, settled |-> FALSE, offers |-> offer])
                   ELSE [candidates EXCEPT ![row] = [occurrences |-> sum, settled |-> @.settled, offers |-> @.offers + offer]]
        /\ newest' = IF row = 0 THEN Len(candidates') ELSE row
        /\ counter' = [counter EXCEPT ![t] = <<"idle">>]
        /\ UNCHANGED runs

\* The database is locked: a turn is not failed for it.
Uncounted(t) ==
    /\ counter[t] # <<"idle">>
    /\ counter' = [counter EXCEPT ![t] = <<"idle">>]
    /\ UNCHANGED <<candidates, newest, runs>>

\* Dismissed, or promoted: from the list once it was offered, or before that
\* from the answer it came with.
SettleRow(i) ==
    /\ ~candidates[i].settled
    /\ candidates' = [candidates EXCEPT ![i].settled = TRUE]
    /\ UNCHANGED <<newest, counter, runs>>

PromNext ==
    \/ \E t \in Turners : Match(t) \/ Count(t) \/ Uncounted(t)
    \/ \E i \in DOMAIN candidates : SettleRow(i)

PromSpec == PromInit /\ [][PromNext]_promVars
-----------------------------------------------------------------------------
(* Properties.                                                              *)

\* A candidate is offered when it has "just" become offerable, so once, however
\* the turns that count it overlap; and not after the user has decided, unless
\* the turn had matched it before.
OfferedOnce ==
    [][\A i \in DOMAIN candidates :
          candidates'[i].offers > candidates[i].offers =>
              /\ candidates[i].offers = 0
              /\ candidates[i].settled => \E t \in Turners : counter[t] = <<"matched", i, FALSE>>]_promVars

\* A skill is what was shown and installed, whatever failed on the way, and a pattern becomes a
\* candidate once.
SkillsHold == InstallHolds /\ OfferedOnce
=============================================================================
