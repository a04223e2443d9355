---------------------------- MODULE EvidenceChain ----------------------------
(***************************************************************************)
(* The release evidence of the stages: builders (build_stage2*_evidence.py,*)
(* build_stage32_evidence.py) write a stage's evidence directory file by   *)
(* file beside the work tree, validators (validate_part2_stage*.py,        *)
(* validate_part3_stage2.py) decide whether it still speaks for the tree,  *)
(* and a stage is merged when the gates of all stages begun are green.     *)
(* Stages 1 and 3 are checked after their merge on the commit they were    *)
(* merged as (validate_part2_stage*_frozen.py).                            *)
(*                                                                         *)
(* Stage 8 is Part 3 Stage 2, directory 0 is the evidence of Part 1. Four  *)
(* files stand for a directory: what the laboratory reported, the changed  *)
(* paths, the artifact manifest and the receipt. A digest is what it       *)
(* digests, a directory is one changed path, a merge commit has the tree   *)
(* of its branch. What a report must say is right; what a validator        *)
(* demands of the tree beside the evidence (claims, acceptance registries, *)
(* schemas, contracts, fixtures, the programs it runs) is met or not by    *)
(* the files as they are: Refused lists the trees that do not meet it.     *)
(***************************************************************************)
EXTENDS Naturals, Sequences, FiniteSets

CONSTANTS
    Windows,    \* the runs of consecutive stages to follow
    Shared,     \* files that every stage may change
    Foreign,    \* files outside of the scope of stages 1 to 3
    Refused,    \* stage and files: the stage's validator fails on them
    NoFile,     \* stands for a file that is not there
    MaxLabs,    \* bound: builds
    MaxEdits,   \* bound: changes by hand
    MaxCommits  \* bound: length of the history

Stages == 1..8
Plain == Shared \cup Foreign
Hand == MaxLabs + 1   \* the content of an evidence file edited by hand

(* The files of an evidence directory. A manifest lists the two files of   *)
(* the directory and, row by row, files of the tree.                       *)
Report == [src : Nat, lab : Nat]
PathList == [src : Nat, set : SUBSET (Plain \cup Stages \cup {0})]
Rows == UNION {[P -> Nat] : P \in SUBSET Plain}
Manifest == [src : Nat, plain : Rows, ev : Report \X (PathList \cup {NoFile})]
Receipt == [src : Nat, digest : Manifest \cup {NoFile}]

ASSUME ChainAssumption ==
    /\ Windows \subseteq SUBSET Stages
    /\ \A w \in Windows : \A i, j \in w : i..j \subseteq w
    /\ Shared \cap Foreign = {}
    /\ NoFile \notin Report /\ NoFile \notin PathList
    /\ NoFile \notin Manifest /\ NoFile \notin Receipt
    /\ MaxLabs \in Nat
ASSUME RefusedAssumption == Refused \subseteq Stages \X [Plain -> Nat]

VARIABLES
    window,   \* the stages followed, never changed
    tree,     \* the working tree: [plain, ev]
    log,      \* the commits of the branch; the last one is HEAD
    merged,   \* stage -> its merge commit, or 0
    run,      \* the builder that runs, or its state at rest
    labs, edits,
    outputs,  \* history: stage -> directories its finished builds left
    fresh     \* history: the stage built last, on an undisturbed tree, or 0

vars == <<window, tree, log, merged, run, labs, edits, outputs, fresh>>

NoDir == [report |-> NoFile, paths |-> NoFile, manifest |-> NoFile, receipt |-> NoFile]
Rest == [stage |-> 0, src |-> 0, pc |-> "rest", paths |-> {}, calm |-> FALSE]
NoRows == [p \in {} |-> 0]
Dirs == {0} \cup window
Before(s) == {d \in Dirs : d < s}
head == Len(log)

-----------------------------------------------------------------------------
(* git *)

Base(s) == IF s - 1 \in window THEN merged[s - 1] ELSE 1
Begun == {s \in window : s - 1 \in window => merged[s - 1] # 0}
Merged == {s \in window : merged[s] # 0}

Differ(t, u) == {p \in Plain : t.plain[p] # u.plain[p]}
                    \cup {d \in Dirs : t.ev[d] # u.ev[d]}

(* diff BASE...HEAD, diff, and the untracked files *)
Changed(s, h, t) == Differ(log[Base(s)], log[h]) \cup Differ(log[h], t)

-----------------------------------------------------------------------------
(* The validators, on tree t whose HEAD is commit h *)

(* mutant of Receipted: the manifest is not compared with the receipt *)
ReceiptedUnbound(s, t) ==
    LET d == t.ev[s]
    IN  /\ NoFile \notin {d.report, d.paths, d.manifest, d.receipt}
        /\ d.manifest.ev = <<d.report, d.paths>>

(* the manifest speaks for the evidence files, the receipt for the manifest *)
Receipted(s, t) ==
    LET d == t.ev[s]
    IN  /\ NoFile \notin {d.report, d.paths, d.manifest, d.receipt}
        /\ d.manifest.ev = <<d.report, d.paths>>
        /\ d.receipt.digest = d.manifest

OneSource(s, t) ==
    LET d == t.ev[s]
    IN  \A f \in {d.report, d.paths, d.manifest} : f.src = d.receipt.src

ListedIn(s, t, plain) ==
    LET rows == t.ev[s].manifest.plain IN \A p \in DOMAIN rows : rows[p] = plain[p]

(* mutant of PredecessorsStay: HEAD is compared with itself *)
HeadStays(s, h) == \A d \in Before(s) : log[h].ev[d] = log[head].ev[d]

PredecessorsStay(s, h) ==
    \A d \in Before(s) : log[h].ev[d] = log[Base(s)].ev[d]

InScope(s, paths) == paths \subseteq Shared \cup {s}

(* Part 1's digests still match its evidence in the tree *)
Preserved(t) == t.ev[0].manifest.ev[1] = t.ev[0].report

(* the tree meets what the validator asks of it beside the evidence: stage 2 *)
(* runs the normalizer again on contracts and fixtures, 3 the reconstruction *)
(* of its snapshot; all read claims, registries or schemas                   *)
Fits(s, t) == <<s, t.plain>> \notin Refused

Validate1(t, h) ==
    /\ Fits(1, t)
    /\ Receipted(1, t) /\ OneSource(1, t)
    /\ ListedIn(1, t, t.plain)
    /\ InScope(1, Changed(1, h, t))
    /\ Preserved(t)
    /\ t.ev[1].paths.set = Changed(1, h, t)

Validate2(t, h) ==
    LET completed == IF merged[2] # 0 THEN merged[2] ELSE h
    IN  /\ Fits(2, t) /\ Receipted(2, t) /\ OneSource(2, t)
        /\ InScope(2, Differ(log[Base(2)], log[completed]))
        /\ PredecessorsStay(2, h)

Validate3(t, h) ==
    /\ Fits(3, t) /\ Receipted(3, t) /\ OneSource(3, t)
    /\ InScope(3, Changed(3, h, t))
    /\ PredecessorsStay(3, h)

Validate4(t, h) ==
    Fits(4, t) /\ Receipted(4, t) /\ OneSource(4, t) /\ PredecessorsStay(4, h)
Validate5(t, h) ==
    Fits(5, t) /\ Receipted(5, t) /\ OneSource(5, t) /\ PredecessorsStay(5, h)

(* mutant of BoundAtSource: later edits are taken for drift *)
BoundInTree(s, t) == ListedIn(s, t, t.plain)

(* what stage 6 lists is read from the commit it was built from *)
BoundAtSource(s, t) == ListedIn(s, t, log[t.ev[s].receipt.src].plain)
Validate6(t, h) == Fits(6, t) /\ Receipted(6, t) /\ BoundAtSource(6, t)

Validate7(t, h) == Fits(7, t) /\ Receipted(7, t) /\ ListedIn(7, t, t.plain)

(* the receipt is not read; the protected evidence is compared in the tree *)
Validate8(t, h) ==
    LET d == t.ev[8]
    IN  /\ Fits(8, t)
        /\ \A e \in Before(8) : t.ev[e] = log[Base(8)].ev[e]
        /\ d.manifest # NoFile
        /\ d.manifest.ev = <<d.report, d.paths>>
        /\ ListedIn(8, t, t.plain)

Validate(s, t, h) ==
    \/ s = 1 /\ Validate1(t, h)
    \/ s = 2 /\ Validate2(t, h)
    \/ s = 3 /\ Validate3(t, h)
    \/ s = 4 /\ Validate4(t, h)
    \/ s = 5 /\ Validate5(t, h)
    \/ s = 6 /\ Validate6(t, h)
    \/ s = 7 /\ Validate7(t, h)
    \/ s = 8 /\ Validate8(t, h)

(* the validator of the merged commit, run in a work tree of that commit *)
Frozen1 == Validate1(log[merged[1]], merged[1])
Frozen3 == Validate3(log[merged[3]], merged[3])

Gate(s) ==
    \/ s = 1 /\ s \in Merged /\ Frozen1
    \/ s = 3 /\ s \in Merged /\ Frozen3
    \/ ~(s \in {1, 3} /\ s \in Merged) /\ Validate(s, tree, head)

(* the gates of ci.yml *)
Green(begun) == Preserved(tree) /\ \A s \in begun : Gate(s)

-----------------------------------------------------------------------------
Part1 ==
    LET report == [src |-> 1, lab |-> 0]
    IN  [report |-> report, paths |-> NoFile, receipt |-> NoFile,
         manifest |-> [src |-> 1, plain |-> NoRows, ev |-> <<report, NoFile>>]]
Entry == [plain |-> [p \in Plain |-> 0],
          ev |-> [d \in Dirs |-> IF d = 0 THEN Part1 ELSE NoDir]]

Init ==
    /\ window \in Windows
    /\ tree = Entry /\ log = <<Entry>>
    /\ merged = [s \in window |-> 0]
    /\ run = Rest /\ labs = 0 /\ edits = 0
    /\ outputs = [s \in window |-> {}]
    /\ fresh = 0

-----------------------------------------------------------------------------
(* Work by hand *)

ByHand ==
    /\ edits < MaxEdits
    /\ edits' = edits + 1
    /\ fresh' = 0
    /\ run' = [run EXCEPT !.calm = FALSE]
    /\ UNCHANGED <<window, log, merged, labs, outputs>>

(* a new content, or the one it had at first *)
Edit(p) ==
    /\ \E content \in {0, tree.plain[p] + 1} \ {tree.plain[p]} :
          tree' = [tree EXCEPT !.plain[p] = content]
    /\ ByHand

EditEvidence(d) ==
    /\ tree.ev[d].report # NoFile /\ tree.ev[d].report.lab # Hand
    /\ tree' = [tree EXCEPT !.ev[d].report.lab = Hand]
    /\ ByHand

Remove(s) ==
    /\ run = Rest
    /\ tree.ev[s] # NoDir
    /\ tree' = [tree EXCEPT !.ev[s] = NoDir]
    /\ ByHand

Commit ==
    /\ run = Rest
    /\ tree # log[head]
    /\ head < MaxCommits
    /\ log' = Append(log, tree)
    /\ UNCHANGED <<window, tree, merged, run, labs, edits, outputs, fresh>>

Merge(s) ==
    /\ s \in Begun \ Merged
    /\ run = Rest
    /\ tree = log[head]
    /\ Green(Begun)
    /\ merged' = [merged EXCEPT ![s] = head]
    /\ UNCHANGED <<window, tree, log, run, labs, edits, outputs, fresh>>

-----------------------------------------------------------------------------
(* The builders *)

(* stages 3 to 7 refuse a directory that exists *)
CanBegin(s) == s \in {1, 2, 8} \/ tree.ev[s] = NoDir

(* mutant of Begin: the evidence to be written is not among the paths *)
BeginWithoutOutputs(s, src) ==
    /\ run = Rest
    /\ labs < MaxLabs
    /\ s \in Begun
    /\ CanBegin(s)
    /\ labs' = labs + 1
    /\ run' = [stage |-> s, src |-> src, pc |-> "report",
               paths |-> IF s = 1 THEN Changed(s, head, tree) ELSE {},
               calm |-> tree.plain = log[src].plain]
    /\ fresh' = 0
    /\ UNCHANGED <<window, tree, log, merged, edits, outputs>>

(* Stage 1 lists the paths it will have changed before it writes *)
Begin(s, src) ==
    /\ run = Rest
    /\ labs < MaxLabs
    /\ s \in Begun
    /\ CanBegin(s)
    /\ labs' = labs + 1
    /\ run' = [stage |-> s, src |-> src, pc |-> "report",
               paths |-> IF s = 1 THEN Changed(s, head, tree) \cup {1} ELSE {},
               calm |-> tree.plain = log[src].plain]
    /\ fresh' = 0
    /\ UNCHANGED <<window, tree, log, merged, edits, outputs>>

WriteFile(from, to, left) ==
    /\ run.pc = from
    /\ run' = [run EXCEPT !.pc = to]
    /\ tree' = [tree EXCEPT !.ev[run.stage] = left]
    /\ UNCHANGED <<window, log, merged, labs, edits, outputs, fresh>>

WriteReport ==
    WriteFile("report", "paths",
              [tree.ev[run.stage] EXCEPT !.report = [src |-> run.src, lab |-> labs]])

PathsSince(s, src) == Differ(log[Base(s)], log[src])
PathsInTree(src) == PathsSince(2, src) \cup Differ(log[Base(2)], tree)
PathsProtected == {d \in Before(8) : tree.ev[d] # log[Base(8)].ev[d]}

PathsOf(s, src) ==
    {p \in Plain \cup Dirs :
        \/ s = 1 /\ p \in run.paths
        \/ s = 2 /\ p \in PathsInTree(src)
        \/ s \in 3..7 /\ p \in PathsSince(s, src)
        \/ s = 8 /\ p \in PathsProtected}

WritePaths ==
    WriteFile("paths", "manifest",
              [tree.ev[run.stage] EXCEPT !.paths =
                  [src |-> run.src, set |-> PathsOf(run.stage, run.src)]])

(* stage 1 lists what changed by now, 2 to 5 nothing but their evidence, *)
(* 6 and 7 their ARTIFACTS, 8 its roots                                   *)
ChangedFiles == Changed(1, head, tree) \cap Plain
Listed(s) ==
    {p \in Plain : \/ s = 1 /\ p \in ChangedFiles
                   \/ s \in 6..7 /\ p \in Shared
                   \/ s = 8 /\ p \in Foreign}

ManifestOf(s, src) ==
    [src |-> src, ev |-> <<tree.ev[s].report, tree.ev[s].paths>>,
     plain |-> [p \in Listed(s) |-> tree.plain[p]]]

WriteManifest ==
    WriteFile("manifest", "receipt",
              [tree.ev[run.stage] EXCEPT !.manifest = ManifestOf(run.stage, run.src)])

WriteReceipt ==
    LET s == run.stage
        digest == IF s = 8 THEN NoFile ELSE tree.ev[s].manifest
        left == [tree.ev[s] EXCEPT !.receipt = [src |-> run.src, digest |-> digest]]
    IN  /\ run.pc = "receipt"
        /\ tree' = [tree EXCEPT !.ev[s] = left]
        /\ run' = Rest
        /\ outputs' = [outputs EXCEPT ![s] = @ \cup {left}]
        /\ fresh' = IF run.calm THEN s ELSE 0
        /\ UNCHANGED <<window, log, merged, labs, edits>>

Crash ==
    /\ run # Rest
    /\ run' = Rest
    /\ UNCHANGED <<window, tree, log, merged, labs, edits, outputs, fresh>>

Next ==
    \/ \E p \in Plain : Edit(p)
    \/ \E d \in Dirs : EditEvidence(d)
    \/ \E s \in window : Remove(s) \/ Merge(s)
    \/ Commit
    \/ \E s \in window : \E src \in {head, head - 1} \ {0} : Begin(s, src)
    \/ WriteReport \/ WritePaths \/ WriteManifest \/ WriteReceipt
    \/ Crash

Spec == Init /\ [][Next]_vars

-----------------------------------------------------------------------------
(* A gate of stages 1 to 7 passes only on a directory that a builder left  *)
(* when it finished: a builder that died on the way, over an empty or an   *)
(* older directory, and an edit by hand afterwards are both noticed.       *)
GreenIsFinished ==
    \A s \in window \ {8} : Validate(s, tree, head) => tree.ev[s] \in outputs[s]

(* A build that ran to its end on the tree of its source commit speaks for *)
(* that tree: the gate it feeds finds every listed file, digest and path   *)
(* as recorded, before and after the evidence itself is committed. Only if *)
(* a file that stage 1 lists as changed was put back to what it was at the *)
(* base does committing it shorten what git calls changed.                 *)
FinishedBuildVerifies ==
    fresh # 0 =>
        /\ fresh # 8 => Receipted(fresh, tree)
        /\ fresh \in 1..5 => OneSource(fresh, tree)
        /\ fresh \in {1, 7, 8} => ListedIn(fresh, tree, tree.plain)
        /\ fresh = 6 => BoundAtSource(6, tree)
        /\ fresh = 1 /\ merged[1] = 0 =>
              LET listed == tree.ev[1].paths.set
              IN  \/ listed = Changed(1, head, tree)
                  \/ \E p \in listed \cap Plain : tree.plain[p] = log[1].plain[p]

(* Later work does not make the evidence of a merged stage stale: while    *)
(* evidence directories stay as they are, edits, commits, builds and       *)
(* merges leave a green gate of stages 1 and 3 green whatever they do, and *)
(* one of 2, 4, 5 or 6 unless the tree no longer meets what its validator  *)
(* asks of the tree itself. That a listed file has changed is no reason.   *)
LaterWorkKeepsGates ==
    [][\A s \in Merged \ {7, 8} :
          Gate(s) /\ (\A d \in Before(s + 1) : tree'.ev[d] = tree.ev[d]
                                      /\ log'[Len(log')].ev[d] = log[head].ev[d])
                  /\ (s \in {1, 3} \/ Fits(s, tree'))
             => Gate(s)']_vars

(* On a committed tree with every gate of the merged stages green, the     *)
(* evidence that a merged stage 2, 4, 5 or 8 follows is, byte for byte,    *)
(* what was merged with the stage that made it. The evidence of 5 and 6 is *)
(* left out: the gates of 6 and 7 do not look back, so it may be made      *)
(* again, and committed, until 7 is merged; from then on stage 8 holds it. *)
AsMerged(d) == IF d \in window THEN merged[d] ELSE 1
EvidenceAsMerged ==
    tree = log[head] /\ Green(Merged) =>
        \A w \in Merged \cap {2, 4, 5, 8} : \A d \in Before(w) \ {5, 6} :
            tree.ev[d] = log[AsMerged(d)].ev[d]

-----------------------------------------------------------------------------
(* The inductive invariant *)

Directory == [report : Report \cup {NoFile}, paths : PathList \cup {NoFile},
              manifest : Manifest \cup {NoFile}, receipt : Receipt \cup {NoFile}]
Tree == [plain : [Plain -> Nat], ev : [Dirs -> Directory]]
Running == [stage : window, src : 1..head, pc : {"report", "paths", "manifest", "receipt"},
            paths : SUBSET (Plain \cup Dirs), calm : BOOLEAN]

ChainTypeOK ==
    /\ window \in Windows
    /\ tree \in Tree /\ log \in Seq(Tree) /\ head >= 1
    /\ merged \in [window -> 0..head]
    /\ run = Rest \/ (run \in Running /\ run.stage \in Begun)
    /\ labs \in 0..MaxLabs /\ edits \in Nat
    /\ outputs \in [window -> SUBSET Directory]
    /\ fresh \in Dirs /\ (fresh # 0 => run = Rest)

(* Stages are merged in order, the evidence of Part 1 is as it was or has   *)
(* been edited for good, and before stage 1 is merged no other begins.      *)
HandPart1 == [Part1 EXCEPT !.report = [src |-> 1, lab |-> Hand]]
HistoryInv ==
    /\ log[1] = Entry
    /\ \A s, d \in window : d < s /\ merged[s] # 0 => merged[d] # 0
    /\ tree.ev[0] \in {Part1, HandPart1}
    /\ \A i \in 1..head : log[i].ev[0] = Part1 \/ log[i].ev[0] = tree.ev[0]
    /\ 1 \in window /\ merged[1] = 0 =>
          \A d \in window \ {1} : tree.ev[d] = NoDir /\ \A i \in 1..head : log[i].ev[d] = NoDir

(* What a merge commit holds is what was merged before. *)
MergeInv ==
    \A s \in Merged : \A d \in Before(s) \ {5, 6} :
        log[merged[s]].ev[d] = log[AsMerged(d)].ev[d]

(* The laboratories whose reports are written; an edit counts for every one. *)
Reported == {Hand} \cup 0..(IF run.pc = "report" THEN labs - 1 ELSE labs)

(* A receipt stands for a manifest with which the directory was left as it   *)
(* is, or whose report is gone for good.                                     *)
DirectoryInv(s) ==
    LET d == tree.ev[s]
        m == d.receipt.digest
    IN  /\ d.report # NoFile => d.report.lab \in Reported
        /\ d.manifest # NoFile => d.report # NoFile /\ d.manifest.ev[1].lab \in Reported
        /\ d.receipt # NoFile => d.report # NoFile /\ d.receipt.src \in 1..head
        /\ s # 8 /\ d.receipt # NoFile =>
              /\ m # NoFile /\ m.ev[1].lab \in Reported
              /\ \/ [report |-> m.ev[1], paths |-> m.ev[2],
                     manifest |-> m, receipt |-> d.receipt] \in outputs[s]
                 \/ d.report.lab > m.ev[1].lab

(* What the running builder has written, and what nobody disturbs. *)
BuilderInv ==
    LET d == tree.ev[run.stage]
        m == d.manifest
    IN  run # Rest =>
        /\ run.pc # "report" => d.report # NoFile /\ d.report.src = run.src
        /\ run.pc \in {"manifest", "receipt"} =>
              /\ d.paths # NoFile /\ d.paths.src = run.src
              /\ run.stage = 1 => d.paths.set = run.paths
        /\ run.pc = "receipt" =>
              /\ m # NoFile /\ m.src = run.src /\ m.ev[2] = d.paths
              /\ (m.ev[1] = d.report \/ d.report.lab > m.ev[1].lab)
        /\ run.calm =>
              /\ tree.plain = log[run.src].plain
              /\ run.stage = 1 /\ merged[1] = 0 =>
                    run.paths = Changed(1, head, tree) \cup {1}
              /\ run.pc = "receipt" =>
                    /\ m.ev[1] = d.report
                    /\ \A p \in DOMAIN m.plain : m.plain[p] = tree.plain[p]

FreshInv ==
    fresh # 0 =>
        /\ fresh # 8 => Receipted(fresh, tree)
        /\ tree.ev[fresh].report # NoFile /\ tree.ev[fresh].receipt # NoFile
        /\ OneSource(fresh, tree) /\ ListedIn(fresh, tree, tree.plain)
        /\ tree.plain = log[tree.ev[fresh].receipt.src].plain
        /\ FinishedBuildVerifies

IInv ==
    /\ ChainTypeOK /\ HistoryInv /\ MergeInv
    /\ \A s \in window : DirectoryInv(s)
    /\ BuilderInv /\ FreshInv
=============================================================================
