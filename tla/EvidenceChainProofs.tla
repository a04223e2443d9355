------------------------- MODULE EvidenceChainProofs -------------------------
(***************************************************************************)
(* The gates of the release evidence, for any stages followed, any files,  *)
(* any number of builds, edits and commits.                                *)
(***************************************************************************)
EXTENDS EvidenceChain, TLAPS

USE ChainAssumption

-----------------------------------------------------------------------------
(* Stages, directories and their types *)

LEMMA WindowFacts ==
    ASSUME window \in Windows
    PROVE  /\ window \subseteq Stages /\ Dirs \subseteq 0..8
           /\ \A s, d \in window : d < s => s - 1 \in window /\ d <= s - 1
           /\ \A s \in window : Before(s) \subseteq Dirs /\ s \notin Before(s)
           /\ 0 \in Dirs /\ 0 \notin window /\ window \subseteq Dirs
<1>1. window \subseteq Stages /\ \A i, j \in window : i..j \subseteq window
  OBVIOUS
<1>2. ASSUME NEW s \in window, NEW d \in window, d < s
      PROVE  s - 1 \in window /\ d <= s - 1
  <2>1. s \in Nat /\ d \in Nat
    BY <1>1 DEF Stages
  <2>2. s - 1 \in d..s /\ d <= s - 1
    BY <1>2, <2>1
  <2> QED
    BY <1>1, <2>2
<1> QED
  BY <1>1, <1>2 DEF Stages, Dirs, Before

LEMMA EmptyFiles ==
    /\ NoDir \in Directory
    /\ NoDir.report = NoFile /\ NoDir.paths = NoFile
    /\ NoDir.manifest = NoFile /\ NoDir.receipt = NoFile
BY DEF NoDir, Directory

LEMMA PartOneFiles ==
    /\ Part1 \in Directory /\ HandPart1 \in Directory
    /\ Part1.report = [src |-> 1, lab |-> 0] /\ HandPart1.report = [src |-> 1, lab |-> Hand]
    /\ Part1.manifest = HandPart1.manifest
    /\ Part1.manifest.ev[1] = Part1.report
    /\ Part1.report # NoFile /\ HandPart1.report # NoFile
    /\ Part1.report.lab = 0 /\ HandPart1.report.lab = Hand /\ Hand # 0
<1> DEFINE r == [src |-> 1, lab |-> 0]
           h == [src |-> 1, lab |-> Hand]
           e == <<r, NoFile>>
           m == [src |-> 1, plain |-> NoRows, ev |-> e]
<1>1. Part1 = [report |-> r, paths |-> NoFile, manifest |-> m, receipt |-> NoFile]
  BY DEF Part1
<1>2. HandPart1 = [report |-> h, paths |-> NoFile, manifest |-> m, receipt |-> NoFile]
  BY <1>1 DEF HandPart1
<1>3. r \in Report /\ h \in Report /\ r.lab = 0 /\ h.lab = Hand /\ Hand # 0
  BY DEF Report, Hand
<1>4. NoRows \in Rows
  <2>1. {} \in SUBSET Plain /\ NoRows \in [{} -> Nat]
    BY DEF NoRows
  <2>2. [{} -> Nat] \in {[P -> Nat] : P \in SUBSET Plain}
    BY <2>1
  <2> QED
    BY <2>1, <2>2, Zenon DEF Rows
<1>5. e \in Report \X (PathList \cup {NoFile}) /\ e[1] = r
  BY <1>3
<1>6. m \in Manifest /\ m.ev = e
  BY <1>4, <1>5 DEF Manifest
<1>7. Part1 \in Directory /\ HandPart1 \in Directory
  BY <1>1, <1>2, <1>3, <1>6 DEF Directory
<1> QED
  BY <1>1, <1>2, <1>3, <1>5, <1>6, <1>7

LEMMA DirectoryFields ==
    ASSUME NEW d \in Directory
    PROVE  /\ d.report # NoFile => d.report \in Report /\ d.report.lab \in Nat
           /\ d.paths # NoFile => d.paths \in PathList
           /\ d.manifest # NoFile =>
                 /\ d.manifest \in Manifest
                 /\ d.manifest.ev[1] \in Report /\ d.manifest.ev[1].lab \in Nat
                 /\ d.manifest.ev = <<d.manifest.ev[1], d.manifest.ev[2]>>
           /\ d.receipt # NoFile => d.receipt \in Receipt
           /\ d.receipt # NoFile /\ d.receipt.digest # NoFile =>
                 /\ d.receipt.digest \in Manifest
                 /\ d.receipt.digest.ev[1] \in Report /\ d.receipt.digest.ev[1].lab \in Nat
                 /\ d.receipt.digest.ev = <<d.receipt.digest.ev[1], d.receipt.digest.ev[2]>>
<1>1. ASSUME NEW m \in Manifest
      PROVE  m.ev[1] \in Report /\ m.ev[1].lab \in Nat /\ m.ev = <<m.ev[1], m.ev[2]>>
  <2>1. m.ev \in Report \X (PathList \cup {NoFile})
    BY DEF Manifest
  <2> QED
    BY <2>1 DEF Report
<1>2. /\ d.report \in Report \cup {NoFile} /\ d.paths \in PathList \cup {NoFile}
      /\ d.manifest \in Manifest \cup {NoFile} /\ d.receipt \in Receipt \cup {NoFile}
  BY DEF Directory
<1>3. \A c \in Receipt : c.digest \in Manifest \cup {NoFile}
  BY DEF Receipt
<1>4. \A c \in Report : c.lab \in Nat
  BY DEF Report
<1> QED
  BY <1>1, <1>2, <1>3, <1>4

LEMMA TreeFields ==
    ASSUME NEW t \in Tree
    PROVE  t.plain \in [Plain -> Nat] /\ t.ev \in [Dirs -> Directory]
BY DEF Tree

(* A tree in which one directory, or one file, is replaced. *)
Put(t, d, left) == [t EXCEPT !.ev[d] = left]

LEMMA OneDirectory ==
    ASSUME NEW t \in Tree, NEW d \in Dirs, NEW left \in Directory
    PROVE  /\ Put(t, d, left) \in Tree /\ Put(t, d, left).plain = t.plain
           /\ Put(t, d, left).ev[d] = left
           /\ \A e \in Dirs \ {d} : Put(t, d, left).ev[e] = t.ev[e]
<1>1. t.plain \in [Plain -> Nat] /\ t.ev \in [Dirs -> Directory]
  BY TreeFields
<1>2. Put(t, d, left) = [plain |-> t.plain, ev |-> [t.ev EXCEPT ![d] = left]]
  BY DEF Tree, Put
<1>3. [t.ev EXCEPT ![d] = left] \in [Dirs -> Directory]
  BY <1>1
<1> QED
  BY <1>1, <1>2, <1>3 DEF Tree

LEMMA OneFile ==
    ASSUME NEW t \in Tree, NEW p \in Plain, NEW c \in Nat, NEW u,
           u = [t EXCEPT !.plain[p] = c]
    PROVE  u \in Tree /\ u.ev = t.ev
<1>1. t.plain \in [Plain -> Nat] /\ t.ev \in [Dirs -> Directory]
  BY TreeFields
<1>2. u = [plain |-> [t.plain EXCEPT ![p] = c], ev |-> t.ev]
  BY DEF Tree
<1>3. [t.plain EXCEPT ![p] = c] \in [Plain -> Nat]
  BY <1>1
<1> QED
  BY <1>1, <1>2, <1>3 DEF Tree

LEMMA EntryFacts ==
    ASSUME window \in Windows
    PROVE  /\ Entry \in Tree /\ Entry.ev[0] = Part1
           /\ \A d \in window : Entry.ev[d] = NoDir
<1>1. Entry.ev = [d \in Dirs |-> IF d = 0 THEN Part1 ELSE NoDir]
      /\ Entry.plain = [p \in Plain |-> 0]
  BY DEF Entry
<1>2. Entry.ev \in [Dirs -> Directory] /\ Entry.plain \in [Plain -> Nat]
  BY <1>1, PartOneFiles, EmptyFiles
<1>3. Entry \in Tree
  BY <1>2 DEF Entry, Tree
<1> QED
  BY <1>1, <1>3, WindowFacts

-----------------------------------------------------------------------------
(* What the steps change *)

LEMMA SameWindow ==
    ASSUME window' = window
    PROVE  Tree' = Tree /\ Dirs' = Dirs /\ Entry' = Entry
BY DEF Tree, Dirs, Entry

LEMMA RunFacts ==
    ASSUME ChainTypeOK
    PROVE  /\ run = Rest => run.pc = "rest" /\ run.stage = 0 /\ ~run.calm
           /\ run # Rest =>
                 /\ run.stage \in window /\ run.stage # 0 /\ run.stage \in Begun
                 /\ run.src \in 1..head /\ run.paths \in SUBSET (Plain \cup Dirs)
                 /\ run.pc \in {"report", "paths", "manifest", "receipt"}
                 /\ run.pc # "rest" /\ run.calm \in BOOLEAN
                 /\ run = [stage |-> run.stage, src |-> run.src, pc |-> run.pc,
                           paths |-> run.paths, calm |-> run.calm]
<1>1. run = Rest \/ (run \in Running /\ run.stage \in Begun)
  BY DEF ChainTypeOK
<1>2. window \in Windows
  BY DEF ChainTypeOK
<1> QED
  BY <1>1, <1>2, WindowFacts DEF Rest, Running

LEMMA HeadFacts ==
    ASSUME ChainTypeOK
    PROVE  /\ head \in Nat /\ head >= 1 /\ log[head] \in Tree
           /\ \A i \in 1..head : log[i] \in Tree
BY DEF ChainTypeOK, head

(* A change by hand while a builder runs leaves it where it is. *)
LEMMA HandRun ==
    ASSUME ChainTypeOK, ByHand
    PROVE  /\ UNCHANGED <<window, log, merged, labs, outputs>>
           /\ edits' \in Nat /\ fresh' = 0
           /\ run = Rest => run' = Rest
           /\ run # Rest =>
                 /\ run' # Rest /\ run' \in Running /\ ~run'.calm
                 /\ run'.stage = run.stage /\ run'.src = run.src
                 /\ run'.pc = run.pc /\ run'.paths = run.paths
<1>1. /\ UNCHANGED <<window, log, merged, labs, outputs>>
      /\ edits' = edits + 1 /\ fresh' = 0 /\ run' = [run EXCEPT !.calm = FALSE]
  BY DEF ByHand
<1>2. edits' \in Nat
  BY <1>1 DEF ChainTypeOK
<1>3. run = Rest => run' = Rest
  <2> SUFFICES ASSUME run = Rest PROVE run' = Rest
    OBVIOUS
  <2>1. run \in [stage : {0}, src : {0}, pc : {"rest"}, paths : {{}}, calm : {FALSE}]
    BY DEF Rest
  <2>2. run' = [stage |-> run.stage, src |-> run.src, pc |-> run.pc,
                paths |-> run.paths, calm |-> FALSE]
    BY <1>1, <2>1
  <2>3. run.stage = 0 /\ run.src = 0 /\ run.pc = "rest" /\ run.paths = {}
    BY <2>1
  <2> QED
    BY <2>2, <2>3 DEF Rest
<1>4. ASSUME run # Rest
      PROVE  /\ run' # Rest /\ run' \in Running /\ ~run'.calm
             /\ run'.stage = run.stage /\ run'.src = run.src
             /\ run'.pc = run.pc /\ run'.paths = run.paths
  <2>1. run \in Running /\ run.stage # 0
    BY <1>4, RunFacts DEF ChainTypeOK
  <2>2. run' = [stage |-> run.stage, src |-> run.src, pc |-> run.pc,
                paths |-> run.paths, calm |-> FALSE]
    BY <1>1, <2>1 DEF Running
  <2>3. run'.stage = run.stage /\ ~run'.calm
    BY <2>2
  <2>4. run' # Rest
    BY <2>1, <2>3 DEF Rest
  <2> QED
    BY <2>1, <2>2, <2>4 DEF Running
<1> QED
  BY <1>1, <1>2, <1>3, <1>4

LEMMA EditFacts ==
    ASSUME ChainTypeOK, NEW p \in Plain, Edit(p)
    PROVE  ByHand /\ tree' \in Tree /\ tree'.ev = tree.ev
<1>1. PICK c \in {0, tree.plain[p] + 1} : tree' = [tree EXCEPT !.plain[p] = c]
  BY DEF Edit
<1>2. tree \in Tree /\ c \in Nat
  <2>1. tree \in Tree
    BY DEF ChainTypeOK
  <2>2. tree.plain[p] \in Nat
    BY <2>1, TreeFields
  <2> QED
    BY <2>1, <2>2
<1> QED
  BY <1>1, <1>2, OneFile DEF Edit

LEMMA EditEvidenceFacts ==
    ASSUME ChainTypeOK, NEW d \in Dirs, EditEvidence(d)
    PROVE  /\ ByHand /\ tree' \in Tree /\ tree'.plain = tree.plain
           /\ tree.ev[d] \in Directory
           /\ tree.ev[d].report # NoFile /\ tree.ev[d].report.lab # Hand
           /\ tree'.ev[d].report = [src |-> tree.ev[d].report.src, lab |-> Hand]
           /\ tree'.ev[d].paths = tree.ev[d].paths
           /\ tree'.ev[d].manifest = tree.ev[d].manifest
           /\ tree'.ev[d].receipt = tree.ev[d].receipt
           /\ \A e \in Dirs \ {d} : tree'.ev[e] = tree.ev[e]
<1> DEFINE old == tree.ev[d]
           left == [old EXCEPT !.report = [src |-> @.src, lab |-> Hand]]
<1>1. tree \in Tree
  BY DEF ChainTypeOK
<1>2. old \in Directory
  BY <1>1, TreeFields
<1>3. old.report # NoFile /\ old.report.lab # Hand
  BY DEF EditEvidence
<1>4. old.report \in Report
  BY <1>2, <1>3, DirectoryFields
<1>5. [old.report EXCEPT !.lab = Hand] = [src |-> old.report.src, lab |-> Hand]
  BY <1>4 DEF Report
<1>6. [old.report EXCEPT !.lab = Hand] \in Report
  BY <1>4 DEF Report, Hand
<1>7. left \in Directory
  BY <1>2, <1>5, <1>6 DEF Directory
<1>8. tree' = Put(tree, d, left)
  BY <1>1, <1>5 DEF EditEvidence, Tree, Put
<1>9. /\ tree' \in Tree /\ tree'.plain = tree.plain /\ tree'.ev[d] = left
      /\ \A e \in Dirs \ {d} : tree'.ev[e] = tree.ev[e]
  BY <1>1, <1>7, <1>8, OneDirectory
<1>10. /\ left.report = [src |-> old.report.src, lab |-> Hand]
       /\ left.paths = old.paths /\ left.manifest = old.manifest
       /\ left.receipt = old.receipt
  BY <1>2 DEF Directory
<1> QED
  BY <1>2, <1>3, <1>9, <1>10 DEF EditEvidence

LEMMA RemoveFacts ==
    ASSUME ChainTypeOK, NEW s \in window, Remove(s)
    PROVE  /\ ByHand /\ run = Rest /\ tree' \in Tree /\ tree'.plain = tree.plain
           /\ tree.ev[s] # NoDir /\ tree'.ev[s] = NoDir
           /\ \A e \in Dirs \ {s} : tree'.ev[e] = tree.ev[e]
<1>1. tree \in Tree /\ s \in Dirs
  BY WindowFacts DEF ChainTypeOK
<1>2. /\ ByHand /\ run = Rest /\ tree.ev[s] # NoDir
      /\ tree' = Put(tree, s, NoDir)
  BY DEF Remove, Put
<1>3. /\ tree' \in Tree /\ tree'.plain = tree.plain /\ tree'.ev[s] = NoDir
      /\ \A e \in Dirs \ {s} : tree'.ev[e] = tree.ev[e]
  BY <1>1, <1>2, EmptyFiles, OneDirectory
<1> QED
  BY <1>2, <1>3

LEMMA WriteFileFacts ==
    ASSUME ChainTypeOK, NEW from \in {"report", "paths", "manifest"},
           NEW to \in {"paths", "manifest", "receipt"}, NEW left \in Directory,
           WriteFile(from, to, left)
    PROVE  /\ run # Rest /\ run.pc = from
           /\ run' # Rest /\ run' \in Running /\ run'.pc = to /\ run'.calm = run.calm
           /\ run'.stage = run.stage /\ run'.src = run.src /\ run'.paths = run.paths
           /\ UNCHANGED <<window, log, merged, labs, edits, outputs, fresh>>
           /\ tree' \in Tree /\ tree'.plain = tree.plain /\ tree'.ev[run.stage] = left
           /\ \A e \in Dirs \ {run.stage} : tree'.ev[e] = tree.ev[e]
<1>1. /\ run.pc = from /\ run' = [run EXCEPT !.pc = to]
      /\ tree' = Put(tree, run.stage, left)
      /\ UNCHANGED <<window, log, merged, labs, edits, outputs, fresh>>
  BY DEF WriteFile, Put
<1>2. run # Rest
  BY <1>1, RunFacts
<1>3. run \in Running /\ run.stage # 0 /\ run.stage \in Dirs
  BY <1>2, RunFacts, WindowFacts DEF ChainTypeOK
<1>4. run' = [stage |-> run.stage, src |-> run.src, pc |-> to,
              paths |-> run.paths, calm |-> run.calm]
  BY <1>1, <1>3 DEF Running
<1>5. run' \in Running
  BY <1>3, <1>4 DEF Running
<1>6. run' # Rest
  <2>1. run'.stage = run.stage
    BY <1>4
  <2> QED
    BY <1>3, <2>1 DEF Rest
<1>7. tree \in Tree
  BY DEF ChainTypeOK
<1>8. /\ tree' \in Tree /\ tree'.plain = tree.plain /\ tree'.ev[run.stage] = left
      /\ \A e \in Dirs \ {run.stage} : tree'.ev[e] = tree.ev[e]
  BY <1>1, <1>3, <1>7, OneDirectory
<1> QED
  BY <1>1, <1>2, <1>4, <1>5, <1>6, <1>8

LEMMA StepReport ==
    ASSUME ChainTypeOK, WriteReport
    PROVE  \E left \in Directory :
              /\ WriteFile("report", "paths", left)
              /\ left.report = [src |-> run.src, lab |-> labs]
              /\ left.report # NoFile
              /\ left.paths = tree.ev[run.stage].paths
              /\ left.manifest = tree.ev[run.stage].manifest
              /\ left.receipt = tree.ev[run.stage].receipt
<1> DEFINE d == tree.ev[run.stage]
           report == [src |-> run.src, lab |-> labs]
           left == [d EXCEPT !.report = report]
<1>1. WriteFile("report", "paths", left)
  BY DEF WriteReport
<1>2. run # Rest
  BY <1>1, RunFacts DEF WriteFile
<1>3. d \in Directory /\ run.src \in Nat /\ labs \in Nat
  BY <1>2, RunFacts, TreeFields, WindowFacts DEF ChainTypeOK
<1>4. report \in Report
  BY <1>3 DEF Report
<1>5. left \in Directory /\ left.report = report /\ left.paths = d.paths
      /\ left.manifest = d.manifest /\ left.receipt = d.receipt
  BY <1>3, <1>4 DEF Directory
<1> QED
  BY <1>1, <1>4, <1>5

LEMMA StepPaths ==
    ASSUME ChainTypeOK, WritePaths
    PROVE  \E left \in Directory :
              /\ WriteFile("paths", "manifest", left)
              /\ left.paths = [src |-> run.src, set |-> PathsOf(run.stage, run.src)]
              /\ left.paths # NoFile
              /\ left.report = tree.ev[run.stage].report
              /\ left.manifest = tree.ev[run.stage].manifest
              /\ left.receipt = tree.ev[run.stage].receipt
<1> DEFINE d == tree.ev[run.stage]
           paths == [src |-> run.src, set |-> PathsOf(run.stage, run.src)]
           left == [d EXCEPT !.paths = paths]
<1>1. WriteFile("paths", "manifest", left)
  BY DEF WritePaths
<1>2. run # Rest
  BY <1>1, RunFacts DEF WriteFile
<1>3. d \in Directory /\ run.src \in Nat
  BY <1>2, RunFacts, TreeFields, WindowFacts DEF ChainTypeOK
<1>4. PathsOf(run.stage, run.src) \in SUBSET (Plain \cup Stages \cup {0})
  BY WindowFacts DEF PathsOf, ChainTypeOK, Stages
<1>5. paths \in PathList
  BY <1>3, <1>4 DEF PathList
<1>6. left \in Directory /\ left.paths = paths /\ left.report = d.report
      /\ left.manifest = d.manifest /\ left.receipt = d.receipt
  BY <1>3, <1>5 DEF Directory
<1> QED
  BY <1>1, <1>5, <1>6

LEMMA StepManifest ==
    ASSUME ChainTypeOK, BuilderInv, WriteManifest
    PROVE  \E left \in Directory :
              /\ WriteFile("manifest", "receipt", left)
              /\ left.manifest # NoFile /\ left.manifest.src = run.src
              /\ left.manifest.ev[1] = left.report /\ left.manifest.ev[2] = left.paths
              /\ \A p \in DOMAIN left.manifest.plain :
                    left.manifest.plain[p] = tree.plain[p]
              /\ left.report = tree.ev[run.stage].report
              /\ left.paths = tree.ev[run.stage].paths
              /\ left.receipt = tree.ev[run.stage].receipt
<1> DEFINE d == tree.ev[run.stage]
           rows == [p \in Listed(run.stage) |-> tree.plain[p]]
           manifest == [src |-> run.src, ev |-> <<d.report, d.paths>>, plain |-> rows]
           left == [d EXCEPT !.manifest = manifest]
<1>1. WriteFile("manifest", "receipt", left)
  BY DEF WriteManifest, ManifestOf
<1>2. run # Rest /\ run.pc = "manifest"
  BY <1>1, RunFacts DEF WriteFile
<1>3. d \in Directory /\ run.src \in Nat /\ tree.plain \in [Plain -> Nat]
  BY <1>2, RunFacts, TreeFields, WindowFacts DEF ChainTypeOK
<1>4. d.report \in Report /\ d.paths \in PathList
  BY <1>2, <1>3, DirectoryFields DEF BuilderInv
<1>5. rows \in Rows
  <2>1. Listed(run.stage) \in SUBSET Plain
    BY DEF Listed
  <2>2. rows \in [Listed(run.stage) -> Nat]
    BY <1>3, <2>1
  <2>3. [Listed(run.stage) -> Nat] \in {[P -> Nat] : P \in SUBSET Plain}
    BY <2>1
  <2> QED
    BY <2>2, <2>3, Zenon DEF Rows
<1>6. manifest \in Manifest
  BY <1>3, <1>4, <1>5 DEF Manifest
<1>7. left \in Directory /\ left.manifest = manifest /\ left.report = d.report
      /\ left.paths = d.paths /\ left.receipt = d.receipt
  BY <1>3, <1>6 DEF Directory
<1>8. manifest.ev[1] = d.report /\ manifest.ev[2] = d.paths /\ manifest.src = run.src
      /\ \A p \in DOMAIN manifest.plain : manifest.plain[p] = tree.plain[p]
  OBVIOUS
<1>9. manifest # NoFile
  BY <1>6
<1> HIDE DEF manifest, left
<1> QED
  BY <1>1, <1>7, <1>8, <1>9

LEMMA StepReceipt ==
    ASSUME ChainTypeOK, BuilderInv, WriteReceipt
    PROVE  \E left \in Directory :
              /\ run # Rest /\ run.pc = "receipt" /\ run' = Rest
              /\ left.receipt # NoFile /\ left.receipt.src = run.src
              /\ run.stage # 8 => left.receipt.digest = left.manifest
              /\ left.report = tree.ev[run.stage].report
              /\ left.paths = tree.ev[run.stage].paths
              /\ left.manifest = tree.ev[run.stage].manifest
              /\ outputs' = [outputs EXCEPT ![run.stage] = @ \cup {left}]
              /\ fresh' = IF run.calm THEN run.stage ELSE 0
              /\ UNCHANGED <<window, log, merged, labs, edits>>
              /\ tree' \in Tree /\ tree'.plain = tree.plain
              /\ tree'.ev[run.stage] = left
              /\ \A e \in Dirs \ {run.stage} : tree'.ev[e] = tree.ev[e]
<1> DEFINE d == tree.ev[run.stage]
           digest == IF run.stage = 8 THEN NoFile ELSE d.manifest
           receipt == [src |-> run.src, digest |-> digest]
           left == [d EXCEPT !.receipt = receipt]
<1>1. /\ run.pc = "receipt" /\ run' = Rest
      /\ tree' = Put(tree, run.stage, left)
      /\ outputs' = [outputs EXCEPT ![run.stage] = @ \cup {left}]
      /\ fresh' = IF run.calm THEN run.stage ELSE 0
      /\ UNCHANGED <<window, log, merged, labs, edits>>
  BY DEF WriteReceipt, Put
<1>2. run # Rest
  BY <1>1, RunFacts
<1>3. /\ d \in Directory /\ run.src \in Nat /\ tree \in Tree
      /\ run.stage \in Dirs
  BY <1>2, RunFacts, TreeFields, WindowFacts DEF ChainTypeOK
<1>4. d.manifest \in Manifest
  BY <1>1, <1>2, <1>3, DirectoryFields DEF BuilderInv
<1>5. receipt \in Receipt
  BY <1>3, <1>4 DEF Receipt
<1>6. left \in Directory /\ left.receipt = receipt /\ left.report = d.report
      /\ left.paths = d.paths /\ left.manifest = d.manifest
  BY <1>3, <1>5 DEF Directory
<1>7. receipt # NoFile /\ receipt.src = run.src
      /\ (run.stage # 8 => receipt.digest = d.manifest)
  BY <1>5
<1> HIDE DEF receipt, left
<1>8. /\ tree' \in Tree /\ tree'.plain = tree.plain /\ tree'.ev[run.stage] = left
      /\ \A e \in Dirs \ {run.stage} : tree'.ev[e] = tree.ev[e]
  BY <1>1, <1>3, <1>6, OneDirectory
<1> QED
  BY <1>1, <1>2, <1>6, <1>7, <1>8

LEMMA BeginFacts ==
    ASSUME ChainTypeOK, NEW s \in window, NEW src \in {head, head - 1} \ {0}, Begin(s, src)
    PROVE  /\ run = Rest /\ s \in Begun /\ src \in 1..head
           /\ labs' = labs + 1 /\ labs' \in 1..MaxLabs /\ fresh' = 0
           /\ UNCHANGED <<window, tree, log, merged, edits, outputs>>
           /\ run' \in Running /\ run' # Rest
           /\ run'.stage = s /\ run'.src = src /\ run'.pc = "report"
           /\ s = 1 => run'.paths = Changed(1, head, tree) \cup {1}
           /\ run'.calm => tree.plain = log[src].plain
<1> DEFINE paths == IF s = 1 THEN Changed(1, head, tree) \cup {1} ELSE {}
           calm == (tree.plain = log[src].plain)
<1>1. /\ run = Rest /\ labs < MaxLabs /\ s \in Begun /\ labs' = labs + 1 /\ fresh' = 0
      /\ run' = [stage |-> s, src |-> src, pc |-> "report", paths |-> paths, calm |-> calm]
      /\ UNCHANGED <<window, tree, log, merged, edits, outputs>>
  BY DEF Begin
<1>2. src \in 1..head /\ labs' \in 1..MaxLabs
  BY <1>1, HeadFacts DEF ChainTypeOK
<1>3. Changed(1, head, tree) \in SUBSET (Plain \cup Dirs)
  BY DEF Changed, Differ
<1>4. paths \in SUBSET (Plain \cup Dirs)
  BY <1>3, WindowFacts DEF ChainTypeOK
<1>5. calm \in BOOLEAN
  OBVIOUS
<1> HIDE DEF paths, calm
<1>6. run' \in [stage : window, src : 1..head, pc : {"report", "paths", "manifest", "receipt"},
                paths : SUBSET (Plain \cup Dirs), calm : BOOLEAN]
  BY <1>1, <1>2, <1>4, <1>5
<1>7. run' \in Running
  BY <1>1, <1>6 DEF Running, Dirs
<1>8. run'.stage = s /\ run'.src = src /\ run'.pc = "report" /\ run'.paths = paths
  BY <1>1
<1>9. run'.calm => calm
  BY <1>1
<1>10. run' # Rest
  BY <1>1, <1>8, WindowFacts DEF ChainTypeOK, Rest
<1> USE DEF paths, calm
<1> QED
  BY <1>1, <1>2, <1>7, <1>8, <1>9, <1>10

LEMMA CommitFacts ==
    ASSUME ChainTypeOK, Commit
    PROVE  /\ run = Rest /\ UNCHANGED <<window, tree, merged, run, labs, edits, outputs, fresh>>
           /\ log' \in Seq(Tree) /\ head' = head + 1 /\ head \in Nat /\ head >= 1
           /\ log'[head'] = tree
           /\ \A i \in 1..head : log'[i] = log[i]
<1>1. /\ run = Rest /\ log' = Append(log, tree)
      /\ UNCHANGED <<window, tree, merged, run, labs, edits, outputs, fresh>>
  BY DEF Commit
<1>2. log \in Seq(Tree) /\ tree \in Tree /\ head = Len(log) /\ head' = Len(log')
  BY DEF ChainTypeOK, head
<1>3. /\ log' \in Seq(Tree) /\ head' = head + 1 /\ log'[head'] = tree
      /\ \A i \in 1..head : log'[i] = log[i]
  BY <1>1, <1>2
<1> QED
  BY <1>1, <1>3, HeadFacts

-----------------------------------------------------------------------------
(* Types *)

LEMMA SameLog ==
    ASSUME UNCHANGED <<window, log>>
    PROVE  /\ Running' = Running /\ head' = head
           /\ merged' = merged => Begun' = Begun /\ Merged' = Merged
BY DEF Running, head, Dirs, Begun, Merged

LEMMA TypeStep ==
    ASSUME ChainTypeOK, BuilderInv, [Next]_vars
    PROVE  ChainTypeOK'
<1> USE DEF head
<1>1. /\ window \in Windows /\ tree \in Tree /\ log \in Seq(Tree) /\ Len(log) >= 1
      /\ merged \in [window -> 0..Len(log)]
      /\ run = Rest \/ (run \in Running /\ run.stage \in Begun)
      /\ labs \in 0..MaxLabs /\ edits \in Nat
      /\ outputs \in [window -> SUBSET Directory]
      /\ fresh \in Dirs /\ (fresh # 0 => run = Rest)
  BY DEF ChainTypeOK
<1>2. CASE UNCHANGED vars
  BY <1>1, <1>2, SameWindow, SameLog DEF ChainTypeOK, vars
<1>3. ASSUME ByHand, tree' \in Tree
      PROVE  ChainTypeOK'
  <2>1. /\ UNCHANGED <<window, log, merged, labs, outputs>>
        /\ edits' \in Nat /\ fresh' = 0
        /\ run = Rest => run' = Rest
        /\ run # Rest => run' \in Running /\ run'.stage = run.stage
    BY <1>3, HandRun
  <2>2. run' = Rest \/ (run' \in Running /\ run'.stage \in Begun)
    BY <1>1, <2>1
  <2> QED
    BY <1>1, <1>3, <2>1, <2>2, SameWindow, SameLog, WindowFacts DEF ChainTypeOK
<1>4. CASE Commit
  <2>1. /\ run = Rest /\ UNCHANGED <<window, tree, merged, run, labs, edits, outputs, fresh>>
        /\ log' \in Seq(Tree) /\ Len(log') = Len(log) + 1
    BY <1>4, CommitFacts
  <2>2. merged \in [window -> 0..Len(log')]
    BY <1>1, <2>1
  <2> QED
    BY <1>1, <2>1, <2>2, SameWindow DEF ChainTypeOK
<1>5. ASSUME NEW s \in window, Merge(s)
      PROVE  ChainTypeOK'
  <2>1. /\ run = Rest /\ merged' = [merged EXCEPT ![s] = Len(log)]
        /\ UNCHANGED <<window, tree, log, run, labs, edits, outputs, fresh>>
    BY <1>5 DEF Merge
  <2>2. merged' \in [window -> 0..Len(log)]
    BY <1>1, <2>1
  <2> QED
    BY <1>1, <2>1, <2>2, SameWindow DEF ChainTypeOK
<1>6. ASSUME NEW s \in window, NEW src \in {head, head - 1} \ {0}, Begin(s, src)
      PROVE  ChainTypeOK'
  <2>1. /\ s \in Begun /\ labs' \in 0..MaxLabs /\ fresh' = 0
        /\ UNCHANGED <<window, tree, log, merged, edits, outputs>>
        /\ run' \in Running /\ run'.stage = s
    BY <1>6, BeginFacts
  <2> QED
    BY <1>1, <2>1, SameWindow, SameLog, WindowFacts DEF ChainTypeOK
<1>7. ASSUME NEW from \in {"report", "paths", "manifest"},
             NEW to \in {"paths", "manifest", "receipt"}, NEW left \in Directory,
             WriteFile(from, to, left)
      PROVE  ChainTypeOK'
  <2>1. /\ run # Rest /\ run' \in Running /\ run'.stage = run.stage /\ tree' \in Tree
        /\ UNCHANGED <<window, log, merged, labs, edits, outputs, fresh>>
    BY <1>7, WriteFileFacts
  <2> QED
    BY <1>1, <2>1, SameWindow, SameLog DEF ChainTypeOK
<1>8. CASE WriteReceipt
  <2>1. PICK left \in Directory :
              /\ run # Rest /\ run' = Rest
              /\ outputs' = [outputs EXCEPT ![run.stage] = @ \cup {left}]
              /\ fresh' = IF run.calm THEN run.stage ELSE 0
              /\ UNCHANGED <<window, log, merged, labs, edits>> /\ tree' \in Tree
    BY <1>8, StepReceipt
  <2>2. run.stage \in window
    BY <2>1, RunFacts
  <2>3. outputs' \in [window -> SUBSET Directory]
    BY <1>1, <2>1, <2>2
  <2>4. fresh' \in Dirs
    BY <1>1, <2>1, <2>2, WindowFacts
  <2> QED
    BY <1>1, <2>1, <2>3, <2>4, SameWindow, SameLog DEF ChainTypeOK
<1>9. CASE Crash
  BY <1>1, <1>9, SameWindow, SameLog DEF ChainTypeOK, Crash
<1>10. CASE \E p \in Plain : Edit(p)
  BY <1>3, <1>10, EditFacts
<1>11. CASE \E d \in Dirs : EditEvidence(d)
  BY <1>3, <1>11, EditEvidenceFacts
<1>12. CASE \E s \in window : Remove(s)
  BY <1>3, <1>12, RemoveFacts
<1>13. CASE WriteReport \/ WritePaths \/ WriteManifest
  BY <1>7, <1>13, StepReport, StepPaths, StepManifest
<1> QED
  BY <1>2, <1>4, <1>5, <1>6, <1>8, <1>9, <1>10, <1>11, <1>12, <1>13 DEF Next

-----------------------------------------------------------------------------
(* History *)

LEMMA StageOneFirst ==
    ASSUME ChainTypeOK, HistoryInv, 1 \in window, merged[1] = 0, NEW s \in Begun
    PROVE  s = 1
<1>1. s \in window /\ s \in Nat /\ s >= 1
  BY WindowFacts DEF Begun, ChainTypeOK, Stages
<1>2. ASSUME s # 1 PROVE FALSE
  <2>1. s - 1 \in window /\ 1 <= s - 1 /\ s - 1 \in Nat
    BY <1>1, <1>2, WindowFacts DEF ChainTypeOK, Stages
  <2>2. merged[s - 1] # 0
    BY <2>1 DEF Begun
  <2> QED
    BY <2>1, <2>2 DEF HistoryInv
<1> QED
  BY <1>2

(* Where neither the history nor the evidence of Part 1 changes, a directory
   changes only if its stage may begin, or is emptied. *)
LEMMA HistoryKept ==
    ASSUME ChainTypeOK, HistoryInv, UNCHANGED <<window, log, merged>>,
           tree'.ev[0] = tree.ev[0],
           \A d \in window : tree'.ev[d] = tree.ev[d] \/ tree'.ev[d] = NoDir \/ d \in Begun
    PROVE  HistoryInv'
<1>1. head' = head /\ Entry' = Entry
  BY SameLog, SameWindow
<1>2. ASSUME 1 \in window, merged[1] = 0, NEW d \in window \ {1}
      PROVE  tree'.ev[d] = NoDir
  BY <1>2, StageOneFirst DEF HistoryInv
<1> QED
  BY <1>1, <1>2 DEF HistoryInv

LEMMA HistoryStep ==
    ASSUME ChainTypeOK, BuilderInv, HistoryInv, [Next]_vars
    PROVE  HistoryInv'
<1>0. window \in Windows /\ 0 \in Dirs /\ 0 \notin window
  BY WindowFacts DEF ChainTypeOK
<1>1. CASE UNCHANGED <<window, log, merged, tree>>
  BY <1>1, HistoryKept
<1>2. CASE UNCHANGED vars \/ Crash
  BY <1>1, <1>2 DEF vars, Crash
<1>3. CASE \E p \in Plain : Edit(p)
  <2>1. tree'.ev = tree.ev /\ UNCHANGED <<window, log, merged>>
    BY <1>3, EditFacts, HandRun
  <2> QED
    BY <2>1, HistoryKept
<1>4. ASSUME NEW d \in Dirs, EditEvidence(d)
      PROVE  HistoryInv'
  <2>1. /\ UNCHANGED <<window, log, merged>>
        /\ tree.ev[d].report # NoFile /\ tree.ev[d].report.lab # Hand
        /\ tree.ev[d] \in Directory /\ tree' \in Tree
        /\ tree'.ev[d].report = [src |-> tree.ev[d].report.src, lab |-> Hand]
        /\ tree'.ev[d].paths = tree.ev[d].paths
        /\ tree'.ev[d].manifest = tree.ev[d].manifest
        /\ tree'.ev[d].receipt = tree.ev[d].receipt
        /\ \A e \in Dirs \ {d} : tree'.ev[e] = tree.ev[e]
    BY <1>4, EditEvidenceFacts, HandRun
  <2>2. CASE d # 0
    <3>1. ASSUME 1 \in window, merged[1] = 0, NEW e \in window \ {1}
          PROVE  tree'.ev[e] = tree.ev[e]
      <4>1. tree.ev[e].report = NoFile
        BY <3>1, EmptyFiles DEF HistoryInv
      <4>2. e # d /\ e \in Dirs
        BY <2>1, <4>1, <1>0, <3>1, WindowFacts
      <4> QED
        BY <2>1, <4>2
    <3>2. tree'.ev[0] = tree.ev[0]
      BY <1>0, <2>1, <2>2
    <3> QED
      BY <2>1, <3>1, <3>2, SameLog, SameWindow DEF HistoryInv
  <2>3. CASE d = 0
    <3>1. tree.ev[0] = Part1
      BY <2>1, <2>3, PartOneFiles DEF HistoryInv
    <3>2. tree'.ev[0] = HandPart1
      <4>1. tree'.ev[0] \in Directory
        BY <1>0, <2>1, TreeFields, SameWindow
      <4>2. /\ tree'.ev[0].report = HandPart1.report
            /\ tree'.ev[0].paths = HandPart1.paths
            /\ tree'.ev[0].manifest = HandPart1.manifest
            /\ tree'.ev[0].receipt = HandPart1.receipt
        BY <2>1, <2>3, <3>1 DEF HandPart1, Part1
      <4> QED
        BY <4>1, <4>2, PartOneFiles DEF Directory
    <3>3. \A i \in 1..head : log[i].ev[0] = Part1
      BY <3>1 DEF HistoryInv
    <3>4. \A e \in window : tree'.ev[e] = tree.ev[e]
      BY <1>0, <2>1, <2>3, WindowFacts
    <3> QED
      BY <2>1, <3>2, <3>3, <3>4, SameLog, SameWindow DEF HistoryInv
  <2> QED
    BY <2>2, <2>3
<1>5. ASSUME NEW s \in window, Remove(s)
      PROVE  HistoryInv'
  <2>1. /\ UNCHANGED <<window, log, merged>> /\ tree'.ev[s] = NoDir
        /\ \A e \in Dirs \ {s} : tree'.ev[e] = tree.ev[e]
    BY <1>5, RemoveFacts, HandRun
  <2> QED
    BY <1>0, <2>1, HistoryKept, WindowFacts
<1>6. CASE Commit
  <2>1. /\ UNCHANGED <<window, tree, merged>> /\ log'[head'] = tree /\ head' = head + 1
        /\ head \in Nat /\ head >= 1 /\ \A i \in 1..head : log'[i] = log[i]
    BY <1>6, CommitFacts
  <2>2. \A i \in 1..head' : log'[i] = tree \/ (i \in 1..head /\ log'[i] = log[i])
    BY <2>1
  <2>3. log'[1] = log[1] /\ Entry' = Entry
    BY <2>1, SameWindow
  <2> QED
    BY <2>1, <2>2, <2>3 DEF HistoryInv
<1>7. ASSUME NEW s \in window, Merge(s)
      PROVE  HistoryInv'
  <2>1. /\ s \in Begun /\ merged' = [merged EXCEPT ![s] = head]
        /\ UNCHANGED <<window, tree, log>> /\ head' = head /\ Entry' = Entry
    BY <1>7, SameLog, SameWindow DEF Merge
  <2>2. head # 0 /\ merged \in [window -> 0..head]
    BY HeadFacts DEF ChainTypeOK
  <2>3. ASSUME NEW t \in window, NEW d \in window, d < t, merged'[t] # 0
        PROVE  merged'[d] # 0
    <3>1. CASE t = s
      <4>1. s - 1 \in window /\ d <= s - 1 /\ s \in Nat /\ d \in Nat
        BY <1>0, <2>3, <3>1, WindowFacts DEF Stages
      <4>2. merged[s - 1] # 0
        BY <2>1, <4>1 DEF Begun
      <4>3. merged[d] # 0
        BY <4>1, <4>2 DEF HistoryInv
      <4> QED
        BY <2>1, <2>2, <4>3
    <3>2. CASE t # s
      <4>1. merged[t] # 0
        BY <2>1, <2>2, <2>3, <3>2
      <4>2. merged[d] # 0
        BY <2>3, <4>1 DEF HistoryInv
      <4> QED
        BY <2>1, <2>2, <4>2
    <3> QED
      BY <3>1, <3>2
  <2>4. 1 \in window /\ merged'[1] = 0 => merged[1] = 0
    BY <2>1, <2>2
  <2> QED
    BY <2>1, <2>3, <2>4 DEF HistoryInv
<1>8. ASSUME NEW s \in window, NEW src \in {head, head - 1} \ {0}, Begin(s, src)
      PROVE  HistoryInv'
  BY <1>1, <1>8, BeginFacts
<1>9. ASSUME NEW from \in {"report", "paths", "manifest"},
             NEW to \in {"paths", "manifest", "receipt"}, NEW left \in Directory,
             WriteFile(from, to, left)
      PROVE  HistoryInv'
  <2>1. /\ run # Rest /\ UNCHANGED <<window, log, merged>>
        /\ \A e \in Dirs \ {run.stage} : tree'.ev[e] = tree.ev[e]
    BY <1>9, WriteFileFacts
  <2> QED
    BY <1>0, <2>1, HistoryKept, RunFacts, WindowFacts
<1>10. CASE WriteReceipt
  <2>1. /\ run # Rest /\ UNCHANGED <<window, log, merged>>
        /\ \A e \in Dirs \ {run.stage} : tree'.ev[e] = tree.ev[e]
    BY <1>10, StepReceipt
  <2> QED
    BY <1>0, <2>1, HistoryKept, RunFacts, WindowFacts
<1>11. CASE WriteReport \/ WritePaths \/ WriteManifest
  BY <1>9, <1>11, StepReport, StepPaths, StepManifest
<1> QED
  BY <1>2, <1>3, <1>4, <1>5, <1>6, <1>7, <1>8, <1>10, <1>11 DEF Next

-----------------------------------------------------------------------------
(* What gates that look back see *)

LEMMA MergedInOrder ==
    ASSUME ChainTypeOK, HistoryInv, NEW s \in Merged
    PROVE  /\ s \in window /\ s \in Begun /\ merged[s] \in 1..head
           /\ \A d \in Before(s) : AsMerged(d) \in 1..head
<1>1. s \in window /\ merged[s] # 0 /\ merged \in [window -> 0..head] /\ window \in Windows
  BY DEF Merged, ChainTypeOK
<1>2. \A d \in window : merged[d] # 0 => merged[d] \in 1..head
  BY <1>1, HeadFacts
<1>3. \A d \in window : d < s => merged[d] # 0
  BY <1>1 DEF HistoryInv
<1>4. s - 1 \in window => s - 1 < s
  BY <1>1, WindowFacts DEF Stages
<1>5. \A d \in Before(s) : d < s
  BY DEF Before
<1> QED
  BY <1>1, <1>2, <1>3, <1>4, <1>5, HeadFacts DEF AsMerged, Begun

LEMMA PartOneStays ==
    ASSUME ChainTypeOK, HistoryInv, Preserved(tree)
    PROVE  tree.ev[0] = log[AsMerged(0)].ev[0]
<1>1. tree.ev[0] = Part1
  BY PartOneFiles DEF HistoryInv, Preserved
<1>2. log[1].ev[0] = Part1 /\ AsMerged(0) = 1
  BY EntryFacts, WindowFacts DEF HistoryInv, AsMerged, ChainTypeOK
<1> QED
  BY <1>1, <1>2

(* A gate that compares with its base sees all that was merged. *)
LEMMA BaseIsAsMerged ==
    ASSUME ChainTypeOK, HistoryInv, MergeInv, Preserved(tree), NEW g \in Begun,
           \A e \in Before(g) : tree.ev[e] = log[Base(g)].ev[e],
           NEW d \in Before(g) \ {5, 6}
    PROVE  tree.ev[d] = log[AsMerged(d)].ev[d]
<1>1. CASE d = 0
  BY <1>1, PartOneStays
<1>2. CASE d # 0
  <2>1. g \in window /\ d \in window /\ d < g /\ g \in Nat /\ d \in Nat
    BY <1>2, WindowFacts DEF Begun, Before, Dirs, ChainTypeOK, Stages
  <2>2. g - 1 \in window /\ d <= g - 1
    BY <2>1, WindowFacts DEF ChainTypeOK
  <2>3. Base(g) = merged[g - 1] /\ merged[g - 1] # 0
    BY <2>2 DEF Base, Begun
  <2>4. tree.ev[d] = log[merged[g - 1]].ev[d]
    BY <2>3
  <2>5. CASE d = g - 1
    BY <2>1, <2>4, <2>5 DEF AsMerged
  <2>6. CASE d # g - 1
    <3>1. g - 1 \in Merged /\ d \in Before(g - 1) \ {5, 6}
      BY <2>1, <2>2, <2>3, <2>6 DEF Merged, Before, Dirs
    <3> QED
      BY <2>4, <3>1 DEF MergeInv
  <2> QED
    BY <2>5, <2>6
<1> QED
  BY <1>1, <1>2

(* Which gates compare: those of 2, 4, 5 and 8 always, that of 3 until it is
   merged. *)
LEMMA GateLooksBack ==
    ASSUME tree = log[head], NEW g \in 1..8, Gate(g),
           g \in {2, 4, 5, 8} \/ (g = 3 /\ g \notin Merged)
    PROVE  \A e \in Before(g) : tree.ev[e] = log[Base(g)].ev[e]
<1>1. Validate(g, tree, head)
  BY DEF Gate
<1>2. PredecessorsStay(g, head) \/ \A e \in Before(g) : tree.ev[e] = log[Base(g)].ev[e]
  <2>1. CASE g = 2
    BY <1>1, <2>1 DEF Validate, Validate2
  <2>2. CASE g = 3
    BY <1>1, <2>2 DEF Validate, Validate3
  <2>3. CASE g = 4
    BY <1>1, <2>3 DEF Validate, Validate4
  <2>4. CASE g = 5
    BY <1>1, <2>4 DEF Validate, Validate5
  <2>5. CASE g = 8
    BY <1>1, <2>5 DEF Validate, Validate8
  <2> QED
    BY <2>1, <2>2, <2>3, <2>4, <2>5
<1> QED
  BY <1>2 DEF PredecessorsStay

LEMMA MergeLooksBack ==
    ASSUME ChainTypeOK, HistoryInv, MergeInv, NEW s \in window, Merge(s),
           NEW d \in Before(s) \ {5, 6}
    PROVE  tree.ev[d] = log[AsMerged(d)].ev[d]
<1>1. /\ s \in Begun /\ s \notin Merged /\ tree = log[head] /\ Preserved(tree)
      /\ \A g \in Begun : Gate(g)
  BY DEF Merge, Green
<1>2. s \in 1..8 /\ d \in Dirs /\ d < s /\ d \in 0..8
  BY WindowFacts DEF Before, ChainTypeOK, Stages
<1>3. CASE d = 0
  BY <1>1, <1>3, PartOneStays
<1>4. CASE s \in {2, 3, 4, 5, 8}
  <2>1. \A e \in Before(s) : tree.ev[e] = log[Base(s)].ev[e]
    BY <1>1, <1>2, <1>4, GateLooksBack
  <2> QED
    BY <1>1, <2>1, BaseIsAsMerged
<1>5. CASE s \in {6, 7} /\ d # 0
  <2>1. d \in window /\ d \in 1..4
    BY <1>2, <1>5 DEF Dirs
  <2>2. 5 \in window /\ s - 1 \in window /\ s - 1 >= 5
    <3>1. d..s \subseteq window
      BY <2>1 DEF ChainTypeOK
    <3> QED
      BY <1>2, <1>5, <2>1, <3>1
  <2>3. merged[s - 1] # 0
    BY <1>1, <2>2 DEF Begun
  <2>4. 5 \in Merged
    BY <1>5, <2>2, <2>3 DEF Merged, HistoryInv
  <2>5. 5 \in Begun /\ d \in Before(5) \ {5, 6}
    BY <1>2, <2>1, <2>4, MergedInOrder DEF Before
  <2>6. \A e \in Before(5) : tree.ev[e] = log[Base(5)].ev[e]
    BY <1>1, <2>5, GateLooksBack
  <2> QED
    BY <1>1, <2>5, <2>6, BaseIsAsMerged
<1> QED
  BY <1>2, <1>3, <1>4, <1>5

LEMMA MergeStep ==
    ASSUME ChainTypeOK, BuilderInv, HistoryInv, MergeInv, [Next]_vars
    PROVE  MergeInv'
<1>1. CASE UNCHANGED <<window, log, merged>>
  BY <1>1 DEF MergeInv, Merged, Before, Dirs, AsMerged
<1>2. CASE Commit
  <2>1. UNCHANGED <<window, merged>> /\ \A i \in 1..head : log'[i] = log[i]
    BY <1>2, CommitFacts
  <2>2. Merged' = Merged /\ \A s \in window : Before(s)' = Before(s) /\ AsMerged(s)' = AsMerged(s)
    BY <2>1 DEF Merged, Before, Dirs, AsMerged
  <2>3. \A d \in Dirs : AsMerged(d)' = AsMerged(d)
    BY <2>1 DEF AsMerged
  <2>4. ASSUME NEW s \in Merged, NEW d \in Before(s) \ {5, 6}
        PROVE  log'[merged[s]].ev[d] = log'[AsMerged(d)].ev[d]
    BY <2>1, <2>4, MergedInOrder DEF MergeInv
  <2>5. \A s \in Merged : s \in window /\ Before(s) \subseteq Dirs
    BY DEF Merged, Before
  <2> QED
    BY <2>1, <2>2, <2>3, <2>4, <2>5 DEF MergeInv
<1>3. ASSUME NEW s \in window, Merge(s)
      PROVE  MergeInv'
  <2>1. /\ s \notin Merged /\ merged' = [merged EXCEPT ![s] = head]
        /\ UNCHANGED <<window, log>> /\ tree = log[head]
        /\ merged \in [window -> 0..head]
    BY <1>3 DEF Merge, ChainTypeOK
  <2>2. ASSUME NEW t \in window, merged'[t] # 0, NEW d \in Before(t) \ {5, 6}
        PROVE  log[merged'[t]].ev[d] = log[AsMerged(d)].ev[d] /\ AsMerged(d)' = AsMerged(d)
    <3>1. d \in Dirs /\ d < t
      BY DEF Before
    <3>2. d \in window => d # s \/ t # s
      BY <3>1, WindowFacts DEF ChainTypeOK, Stages
    <3>3. CASE t = s
      <4>1. log[merged'[t]].ev[d] = log[AsMerged(d)].ev[d]
        BY <1>3, <2>1, <3>3, MergeLooksBack
      <4>2. AsMerged(d)' = AsMerged(d)
        BY <2>1, <3>2, <3>3 DEF AsMerged
      <4> QED
        BY <4>1, <4>2
    <3>4. CASE t # s
      <4>1. t \in Merged /\ merged'[t] = merged[t]
        BY <2>1, <2>2, <3>4 DEF Merged
      <4>2. d \in window => d # s
        BY <2>1, <3>1, <4>1 DEF HistoryInv, Merged
      <4>3. AsMerged(d)' = AsMerged(d)
        BY <2>1, <4>2 DEF AsMerged
      <4> QED
        BY <4>1, <4>3 DEF MergeInv
    <3> QED
      BY <3>3, <3>4
  <2>3. \A t \in window : Before(t)' = Before(t)
    BY <2>1 DEF Before, Dirs
  <2> QED
    BY <2>1, <2>2, <2>3 DEF MergeInv, Merged
<1>4. CASE \/ \E p \in Plain : Edit(p)
           \/ \E d \in Dirs : EditEvidence(d)
           \/ \E s \in window : Remove(s)
           \/ \E s \in window : \E src \in {head, head - 1} \ {0} : Begin(s, src)
           \/ WriteReport \/ WritePaths \/ WriteManifest \/ WriteReceipt
           \/ Crash \/ UNCHANGED vars
  BY <1>1, <1>4 DEF Edit, EditEvidence, Remove, ByHand, Begin, WriteReport, WritePaths,
                    WriteManifest, WriteFile, WriteReceipt, Crash, vars
<1> QED
  BY <1>2, <1>3, <1>4 DEF Next

-----------------------------------------------------------------------------
(* Directories *)

LEMMA ReportedGrows ==
    ASSUME ChainTypeOK, ChainTypeOK',
           \/ labs' = labs /\ (run'.pc = "report" => run.pc = "report")
           \/ labs' = labs + 1 /\ run'.pc = "report"
    PROVE  /\ Reported \subseteq Reported'
           /\ \A l \in Reported : l \in Nat /\ l <= Hand
           /\ \A l \in Reported : l = Hand \/ (l <= labs /\ (run.pc = "report" => l < labs))
<1>1. labs \in Nat /\ labs' \in Nat /\ labs <= MaxLabs /\ Hand = MaxLabs + 1 /\ Hand \in Nat
  BY DEF ChainTypeOK, Hand
<1>2. Hand' = Hand
  BY DEF Hand
<1>3. \A l \in Reported : l = Hand \/ (l \in Nat /\ l <= labs /\ (run.pc = "report" => l < labs))
  BY <1>1 DEF Reported
<1>4. Reported \subseteq Reported'
  <2> SUFFICES ASSUME NEW l \in Reported PROVE l \in Reported'
    OBVIOUS
  <2>1. CASE l = Hand
    BY <1>2, <2>1 DEF Reported
  <2>2. CASE l # Hand
    <3>1. l \in Nat /\ l <= labs /\ (run.pc = "report" => l < labs)
      BY <1>3, <2>2
    <3>2. CASE run'.pc = "report"
      <4>1. l < labs'
        <5>1. CASE labs' = labs /\ run.pc = "report"
          BY <3>1, <5>1
        <5>2. CASE labs' = labs + 1
          BY <1>1, <3>1, <5>2
        <5> QED
          BY <3>2, <5>1, <5>2
      <4>2. \A i, n \in Nat : i < n => i \in 0..(n - 1)
        OBVIOUS
      <4>3. l \in 0..(labs' - 1)
        BY <1>1, <3>1, <4>1, <4>2
      <4> QED
        BY <3>2, <4>3 DEF Reported
    <3>3. CASE run'.pc # "report"
      <4>1. l \in 0..labs'
        BY <1>1, <3>1
      <4> QED
        BY <3>3, <4>1 DEF Reported
    <3> QED
      BY <3>2, <3>3
  <2> QED
    BY <2>1, <2>2
<1>5. \A l \in Reported : l \in Nat /\ l <= Hand
  BY <1>1, <1>3
<1> QED
  BY <1>3, <1>4, <1>5

LEMMA DirectoryKept ==
    ASSUME ChainTypeOK, NEW s \in window, DirectoryInv(s), Reported \subseteq Reported',
           head' \in Nat, head' >= head, outputs[s] \subseteq outputs'[s],
           tree'.ev[s] = tree.ev[s]
    PROVE  DirectoryInv(s)'
BY HeadFacts DEF DirectoryInv

(* How a directory may change while its receipt stays. *)
LEMMA DirectoryChanged ==
    ASSUME ChainTypeOK, NEW s \in window, DirectoryInv(s), Reported \subseteq Reported',
           head' = head, outputs'[s] = outputs[s],
           tree'.ev[s].receipt = tree.ev[s].receipt,
           tree'.ev[s].report # NoFile, tree'.ev[s].report.lab \in Reported',
           tree'.ev[s].manifest # NoFile => tree'.ev[s].manifest.ev[1].lab \in Reported',
           \A l \in Reported : tree.ev[s].report # NoFile /\ tree.ev[s].report.lab > l
                                  => tree'.ev[s].report.lab > l
    PROVE  DirectoryInv(s)'
BY DEF DirectoryInv

LEMMA DirectoryStep ==
    ASSUME ChainTypeOK, ChainTypeOK', BuilderInv, [Next]_vars,
           NEW s \in window, DirectoryInv(s)
    PROVE  DirectoryInv(s)'
<1> DEFINE d == tree.ev[s]
<1>0. /\ d \in Directory /\ s \in Dirs /\ 0 \notin window /\ window \in Windows
      /\ outputs \in [window -> SUBSET Directory] /\ head \in Nat
  BY WindowFacts, TreeFields, HeadFacts DEF ChainTypeOK
<1>1. ASSUME UNCHANGED <<log, outputs, labs>>, run'.pc = "report" => run.pc = "report",
             tree'.ev[s] = d
      PROVE  DirectoryInv(s)'
  BY <1>0, <1>1, ReportedGrows, DirectoryKept DEF head
<1>2. CASE UNCHANGED vars
  BY <1>1, <1>2 DEF vars
<1>3. ASSUME ByHand
      PROVE  UNCHANGED <<log, outputs, labs, window>> /\ run'.pc = run.pc
  BY <1>3, HandRun
<1>4. CASE \E p \in Plain : Edit(p)
  BY <1>1, <1>3, <1>4, EditFacts
<1>5. ASSUME NEW e \in Dirs, EditEvidence(e)
      PROVE  DirectoryInv(s)'
  <2>1. UNCHANGED <<log, outputs, labs, window>> /\ run'.pc = run.pc
    BY <1>3, <1>5, EditEvidenceFacts
  <2>2. CASE e # s
    <3>1. tree'.ev[s] = tree.ev[s]
      <4>1. \A f \in Dirs \ {e} : tree'.ev[f] = tree.ev[f]
        BY <1>5, EditEvidenceFacts
      <4> QED
        BY <1>0, <2>2, <4>1
    <3> QED
      BY <1>1, <2>1, <3>1
  <2>3. CASE e = s
    <3>1. /\ d.report # NoFile /\ d.report.lab # Hand
          /\ tree'.ev[s].report = [src |-> d.report.src, lab |-> Hand]
          /\ tree'.ev[s].manifest = d.manifest /\ tree'.ev[s].receipt = d.receipt
      BY <1>5, <2>3, EditEvidenceFacts
    <3>2. tree'.ev[s].report # NoFile /\ tree'.ev[s].report.lab = Hand
      <4>1. d.report.src \in Nat /\ Hand \in Nat
        BY <1>0, <3>1, DirectoryFields DEF Report, Hand
      <4> QED
        BY <3>1, <4>1 DEF Report
    <3>3. Reported \subseteq Reported' /\ \A l \in Reported : l \in Nat /\ l <= Hand
      BY <2>1, ReportedGrows
    <3>4. d.report.lab \in Reported /\ Hand \in Reported
      BY <3>1 DEF DirectoryInv, Reported
    <3>5. d.report.lab < Hand /\ d.report.lab \in Nat /\ Hand \in Nat
      BY <3>1, <3>3, <3>4
    <3>6. \A l \in Reported : d.report.lab > l => tree'.ev[s].report.lab > l
      BY <3>2, <3>3, <3>5
    <3>7. d.manifest # NoFile => d.manifest.ev[1].lab \in Reported
      BY DEF DirectoryInv
    <3> QED
      BY <2>1, <3>1, <3>2, <3>3, <3>4, <3>6, <3>7, DirectoryChanged DEF head
  <2> QED
    BY <2>2, <2>3
<1>6. ASSUME NEW e \in window, Remove(e)
      PROVE  DirectoryInv(s)'
  <2>1. UNCHANGED <<log, outputs, labs, window>> /\ run'.pc = run.pc
    BY <1>3, <1>6, RemoveFacts
  <2>2. CASE e # s
    <3>1. tree'.ev[s] = tree.ev[s]
      BY <1>0, <1>6, <2>2, RemoveFacts
    <3> QED
      BY <1>1, <2>1, <3>1
  <2>3. CASE e = s
    BY <1>6, <2>3, RemoveFacts, EmptyFiles DEF DirectoryInv
  <2> QED
    BY <2>2, <2>3
<1>7. CASE Commit
  <2>1. UNCHANGED <<tree, outputs, labs, run>> /\ head' = head + 1
    BY <1>7, CommitFacts
  <2>2. Reported \subseteq Reported'
    BY <2>1, ReportedGrows
  <2> QED
    BY <1>0, <2>1, <2>2, DirectoryKept
<1>8. CASE \E e \in window : Merge(e)
  BY <1>1, <1>8 DEF Merge
<1>9. ASSUME NEW e \in window, NEW src \in {head, head - 1} \ {0}, Begin(e, src)
      PROVE  DirectoryInv(s)'
  <2>1. UNCHANGED <<tree, outputs, log>> /\ labs' = labs + 1 /\ run'.pc = "report"
    BY <1>9, BeginFacts
  <2>2. Reported \subseteq Reported'
    BY <2>1, ReportedGrows
  <2> QED
    BY <1>0, <2>1, <2>2, DirectoryKept DEF head
<1>10. ASSUME NEW from \in {"report", "paths", "manifest"},
              NEW to \in {"paths", "manifest", "receipt"}, NEW left \in Directory,
              WriteFile(from, to, left),
              left.receipt = tree.ev[run.stage].receipt, left.report # NoFile,
              left.report.lab \in Reported',
              left.manifest # NoFile => left.manifest.ev[1].lab \in Reported',
              run.stage = s => \A l \in Reported : d.report # NoFile /\ d.report.lab > l
                                                     => left.report.lab > l
       PROVE  DirectoryInv(s)'
  <2>1. /\ UNCHANGED <<log, outputs, labs, window>> /\ run.pc = from /\ run'.pc = to
        /\ tree'.ev[run.stage] = left /\ run.stage \in window
        /\ \A e \in Dirs \ {run.stage} : tree'.ev[e] = tree.ev[e]
    BY <1>10, WriteFileFacts, RunFacts
  <2>2. run'.pc # "report"
    BY <2>1
  <2>3. CASE run.stage # s
    BY <1>0, <1>1, <2>1, <2>2, <2>3
  <2>4. CASE run.stage = s
    <3>1. Reported \subseteq Reported' /\ head' = head
      BY <2>1, <2>2, ReportedGrows DEF head
    <3>2. /\ tree'.ev[s].receipt = d.receipt /\ tree'.ev[s].report # NoFile
          /\ tree'.ev[s].report.lab \in Reported'
          /\ tree'.ev[s].manifest # NoFile => tree'.ev[s].manifest.ev[1].lab \in Reported'
          /\ \A l \in Reported : d.report # NoFile /\ d.report.lab > l
                                    => tree'.ev[s].report.lab > l
      BY <1>10, <2>1, <2>4
    <3> QED
      BY <2>1, <3>1, <3>2, DirectoryChanged
  <2> QED
    BY <2>3, <2>4
<1>11. CASE WriteReport
  <2>1. PICK left \in Directory :
              /\ WriteFile("report", "paths", left)
              /\ left.report = [src |-> run.src, lab |-> labs] /\ left.report # NoFile
              /\ left.manifest = tree.ev[run.stage].manifest
              /\ left.receipt = tree.ev[run.stage].receipt
    BY <1>11, StepReport
  <2>2. run.pc = "report" /\ run'.pc = "paths" /\ labs' = labs /\ labs \in Nat
    BY <2>1, WriteFileFacts DEF ChainTypeOK
  <2>3. left.report.lab = labs /\ labs \in Reported'
    BY <2>1, <2>2 DEF Reported
  <2>4. /\ Reported \subseteq Reported' /\ \A l \in Reported : l \in Nat /\ l <= Hand
        /\ \A l \in Reported : l = Hand \/ l < labs
    BY <2>2, ReportedGrows
  <2>5. left.manifest # NoFile /\ run.stage = s => left.manifest.ev[1].lab \in Reported'
    BY <2>1, <2>4 DEF DirectoryInv
  <2>6. ASSUME run.stage = s, NEW l \in Reported, d.report # NoFile, d.report.lab > l
        PROVE  left.report.lab > l
    <3>1. d.report.lab \in Reported
      BY <2>6 DEF DirectoryInv
    <3> QED
      BY <2>2, <2>3, <2>4, <2>6, <3>1
  <2>7. CASE run.stage = s
    BY <1>10, <2>1, <2>3, <2>5, <2>6, <2>7
  <2>8. CASE run.stage # s
    <3>1. UNCHANGED <<log, outputs, labs>> /\ tree'.ev[s] = d
      BY <1>0, <2>1, <2>8, WriteFileFacts
    <3> QED
      BY <1>1, <2>2, <3>1
  <2> QED
    BY <2>7, <2>8
<1>12. CASE WritePaths \/ WriteManifest
  <2>1. PICK from \in {"paths", "manifest"}, to \in {"manifest", "receipt"}, left \in Directory :
              /\ WriteFile(from, to, left)
              /\ left.report = tree.ev[run.stage].report
              /\ left.receipt = tree.ev[run.stage].receipt
              /\ \/ left.manifest = tree.ev[run.stage].manifest
                 \/ left.manifest.ev[1] = left.report
    BY <1>12, StepPaths, StepManifest
  <2>2. run.pc = from /\ run'.pc = to /\ labs' = labs /\ run # Rest
    BY <2>1, WriteFileFacts
  <2>3. Reported \subseteq Reported'
    BY <2>2, ReportedGrows
  <2>4. left.report # NoFile
    BY <2>1, <2>2 DEF BuilderInv
  <2>5. CASE run.stage = s
    <3>1. left.report.lab \in Reported
      BY <2>1, <2>4, <2>5 DEF DirectoryInv
    <3>2. left.manifest # NoFile => left.manifest.ev[1].lab \in Reported
      BY <2>1, <2>5, <3>1 DEF DirectoryInv
    <3> QED
      BY <1>10, <2>1, <2>3, <2>4, <2>5, <3>1, <3>2
  <2>6. CASE run.stage # s
    <3>1. UNCHANGED <<log, outputs, labs>> /\ tree'.ev[s] = d
      BY <1>0, <2>1, <2>6, WriteFileFacts
    <3> QED
      BY <1>1, <2>2, <3>1
  <2> QED
    BY <2>5, <2>6
<1>13. CASE WriteReceipt
  <2>1. PICK left \in Directory :
              /\ run # Rest /\ run.pc = "receipt" /\ run' = Rest
              /\ left.receipt # NoFile /\ left.receipt.src = run.src
              /\ run.stage # 8 => left.receipt.digest = left.manifest
              /\ left.report = tree.ev[run.stage].report
              /\ left.paths = tree.ev[run.stage].paths
              /\ left.manifest = tree.ev[run.stage].manifest
              /\ outputs' = [outputs EXCEPT ![run.stage] = @ \cup {left}]
              /\ UNCHANGED <<window, log, labs>>
              /\ tree'.ev[run.stage] = left
              /\ \A e \in Dirs \ {run.stage} : tree'.ev[e] = tree.ev[e]
    BY <1>13, StepReceipt
  <2>2. /\ Reported \subseteq Reported' /\ head' = head
        /\ run.stage \in window /\ run.src \in 1..head
    BY <2>1, RunFacts, ReportedGrows DEF Rest, head
  <2>3. CASE run.stage # s
    <3>1. outputs'[s] = outputs[s] /\ tree'.ev[s] = d
      BY <1>0, <2>1, <2>2, <2>3
    <3> QED
      BY <1>0, <2>2, <3>1, DirectoryKept
  <2>4. CASE run.stage = s
    <3> DEFINE m == d.manifest
    <3>1. /\ left.report # NoFile /\ m # NoFile /\ m.ev[2] = left.paths
          /\ m.ev[1] = left.report \/ left.report.lab > m.ev[1].lab
      BY <2>1, <2>4 DEF BuilderInv
    <3>2. left.report.lab \in Reported' /\ m.ev[1].lab \in Reported'
      BY <2>1, <2>2, <2>4, <3>1 DEF DirectoryInv
    <3>3. left = [report |-> left.report, paths |-> left.paths,
                  manifest |-> left.manifest, receipt |-> left.receipt]
      BY DEF Directory
    <3>4. left \in outputs'[s] /\ left.manifest = m
      BY <1>0, <2>1, <2>4
    <3>5. s # 8 => /\ left.receipt.digest = m
                   /\ \/ [report |-> m.ev[1], paths |-> m.ev[2],
                          manifest |-> m, receipt |-> left.receipt] \in outputs'[s]
                      \/ left.report.lab > m.ev[1].lab
      BY <2>1, <2>4, <3>1, <3>3, <3>4
    <3>6. tree'.ev[s] = left /\ left.receipt.src \in 1..head'
      BY <2>1, <2>2, <2>4
    <3> QED
      BY <2>1, <3>1, <3>2, <3>4, <3>5, <3>6 DEF DirectoryInv
  <2> QED
    BY <2>3, <2>4
<1>14. CASE Crash
  <2>1. UNCHANGED <<tree, log, outputs, labs>> /\ run'.pc = "rest"
    BY <1>14 DEF Crash, Rest
  <2> QED
    BY <1>1, <2>1
<1> QED
  BY <1>2, <1>4, <1>5, <1>6, <1>7, <1>8, <1>9, <1>11, <1>12, <1>13, <1>14 DEF Next

-----------------------------------------------------------------------------
(* The running builder *)

LEMMA ChangedElsewhere ==
    ASSUME UNCHANGED <<window, log, merged>>, tree'.plain = tree.plain,
           \A e \in Dirs \ {1} : tree'.ev[e] = tree.ev[e]
    PROVE  Changed(1, head, tree)' \cup {1} = Changed(1, head, tree) \cup {1}
<1>1. head' = head /\ Base(1)' = Base(1) /\ Dirs' = Dirs
  BY DEF head, Base, Dirs
<1>2. Differ(log[Base(1)], log[head])' = Differ(log[Base(1)], log[head])
  BY <1>1 DEF Differ
<1>3. Differ(log[head], tree)' \cup {1} = Differ(log[head], tree) \cup {1}
  BY <1>1 DEF Differ
<1> QED
  BY <1>2, <1>3 DEF Changed

LEMMA BuilderStep ==
    ASSUME ChainTypeOK, ChainTypeOK', BuilderInv, [Next]_vars,
           \A s \in window : DirectoryInv(s)
    PROVE  BuilderInv'
<1> DEFINE s == run.stage
           d == tree.ev[s]
           m == d.manifest
<1>0. window \in Windows
  BY DEF ChainTypeOK
<1>1. CASE run' = Rest
  BY <1>1 DEF BuilderInv
<1>2. CASE UNCHANGED vars
  <2>1. Changed(1, head, tree)' = Changed(1, head, tree)
    BY <1>2 DEF vars, Changed, Differ, Base, Dirs, head
  <2> QED
    BY <1>2, <2>1 DEF vars, BuilderInv
<1>3. ASSUME NEW p \in Plain, Edit(p)
      PROVE  BuilderInv'
  <2>1. ByHand /\ tree'.ev = tree.ev
    BY <1>3, EditFacts
  <2>2. /\ run = Rest => run' = Rest
        /\ run # Rest =>
              /\ ~run'.calm /\ run'.stage = run.stage /\ run'.src = run.src
              /\ run'.pc = run.pc /\ run'.paths = run.paths
    BY <2>1, HandRun
  <2> QED
    BY <1>1, <2>1, <2>2 DEF BuilderInv
<1>4. ASSUME NEW e \in Dirs, EditEvidence(e)
      PROVE  BuilderInv'
  <2>1. /\ ByHand
        /\ e = s => /\ d \in Directory /\ d.report # NoFile /\ d.report.lab # Hand
                    /\ tree'.ev[s].report = [src |-> d.report.src, lab |-> Hand]
                    /\ tree'.ev[s].paths = d.paths /\ tree'.ev[s].manifest = m
        /\ s \in Dirs /\ e # s => tree'.ev[s] = d
    <3>1. /\ ByHand /\ tree.ev[e] \in Directory
          /\ tree.ev[e].report # NoFile /\ tree.ev[e].report.lab # Hand
          /\ tree'.ev[e].report = [src |-> tree.ev[e].report.src, lab |-> Hand]
          /\ tree'.ev[e].paths = tree.ev[e].paths
          /\ tree'.ev[e].manifest = tree.ev[e].manifest
          /\ \A f \in Dirs \ {e} : tree'.ev[f] = tree.ev[f]
      BY <1>4, EditEvidenceFacts
    <3> QED
      BY <3>1
  <2>2. /\ run = Rest => run' = Rest
        /\ run # Rest =>
              /\ ~run'.calm /\ run'.stage = s /\ run'.src = run.src
              /\ run'.pc = run.pc /\ run'.paths = run.paths
              /\ s \in window /\ s \in Dirs
    BY <1>0, <2>1, HandRun, RunFacts, WindowFacts, EditEvidenceFacts, <1>4
  <2>3. CASE run # Rest /\ e # s
    BY <2>1, <2>2, <2>3 DEF BuilderInv
  <2>4. CASE run # Rest /\ e = s
    <3>1. tree'.ev[s].report # NoFile /\ tree'.ev[s].report.src = d.report.src
          /\ tree'.ev[s].report.lab = Hand
      <4>1. d.report.src \in Nat /\ Hand \in Nat
        BY <2>1, <2>4, DirectoryFields DEF Report, Hand
      <4> QED
        BY <2>1, <2>4, <4>1 DEF Report
    <3>2. d.report.lab \in Nat /\ d.report.lab < Hand /\ Hand \in Nat
      <4>1. d.report.lab \in Reported
        BY <2>1, <2>2, <2>4 DEF DirectoryInv
      <4>2. labs \in Nat /\ labs <= MaxLabs
        BY DEF ChainTypeOK
      <4>3. d.report.lab \in Nat /\ d.report.lab <= labs
        BY <2>1, <2>4, <4>1, <4>2 DEF Reported
      <4> QED
        BY <4>2, <4>3 DEF Hand
    <3>3. run.pc = "receipt" => Hand > m.ev[1].lab
      <4>1. run.pc = "receipt" => m # NoFile /\ (m.ev[1] = d.report \/ d.report.lab > m.ev[1].lab)
        BY <2>4 DEF BuilderInv
      <4>2. m # NoFile => m.ev[1].lab \in Nat
        BY <2>1, <2>4, DirectoryFields
      <4> QED
        BY <3>2, <4>1, <4>2
    <3> QED
      BY <2>1, <2>2, <2>4, <3>1, <3>3 DEF BuilderInv
  <2> QED
    BY <1>1, <2>2, <2>3, <2>4
<1>5. ASSUME NEW t \in window, NEW src \in {head, head - 1} \ {0}, Begin(t, src)
      PROVE  BuilderInv'
  <2>1. /\ UNCHANGED <<window, tree, log, merged>>
        /\ run'.stage = t /\ run'.src = src /\ run'.pc = "report"
        /\ t = 1 => run'.paths = Changed(1, head, tree) \cup {1}
        /\ run'.calm => tree.plain = log[src].plain
    BY <1>5, BeginFacts
  <2>2. Changed(1, head, tree)' = Changed(1, head, tree)
    BY <2>1 DEF Changed, Differ, Base, Dirs, head
  <2> QED
    BY <2>1, <2>2 DEF BuilderInv
<1>6. ASSUME NEW from \in {"report", "paths", "manifest"},
             NEW to \in {"paths", "manifest", "receipt"}, NEW left \in Directory,
             WriteFile(from, to, left)
      PROVE  /\ run # Rest /\ run.pc = from /\ run'.pc = to /\ run'.calm = run.calm
             /\ run'.stage = s /\ run'.src = run.src /\ run'.paths = run.paths
             /\ tree'.ev[s] = left /\ tree'.plain = tree.plain
             /\ run'.calm => /\ tree'.plain = log'[run.src].plain
                             /\ s = 1 /\ merged'[1] = 0 =>
                                   run'.paths = Changed(1, head, tree)' \cup {1}
  <2>1. /\ run # Rest /\ run.pc = from /\ run'.pc = to /\ run'.calm = run.calm
        /\ run'.stage = s /\ run'.src = run.src /\ run'.paths = run.paths
        /\ UNCHANGED <<window, log, merged>>
        /\ tree'.ev[s] = left /\ tree'.plain = tree.plain
        /\ \A e \in Dirs \ {s} : tree'.ev[e] = tree.ev[e]
    BY <1>6, WriteFileFacts
  <2>2. s = 1 => Changed(1, head, tree)' \cup {1} = Changed(1, head, tree) \cup {1}
    BY <2>1, ChangedElsewhere
  <2>3. run.calm => /\ tree.plain = log[run.src].plain
                    /\ s = 1 /\ merged[1] = 0 => run.paths = Changed(1, head, tree) \cup {1}
    BY <2>1 DEF BuilderInv
  <2> QED
    BY <2>1, <2>2, <2>3
<1>7. CASE WriteReport
  <2>1. PICK left \in Directory :
              /\ WriteFile("report", "paths", left)
              /\ left.report = [src |-> run.src, lab |-> labs] /\ left.report # NoFile
    BY <1>7, StepReport
  <2> QED
    BY <1>6, <2>1 DEF BuilderInv
<1>8. CASE WritePaths
  <2>1. PICK left \in Directory :
              /\ WriteFile("paths", "manifest", left)
              /\ left.paths = [src |-> run.src, set |-> PathsOf(s, run.src)]
              /\ left.paths # NoFile /\ left.report = d.report
    BY <1>8, StepPaths
  <2>2. run # Rest /\ run.pc = "paths"
    BY <1>6, <2>1
  <2>3. d.report # NoFile /\ d.report.src = run.src
    BY <2>2 DEF BuilderInv
  <2>4. s = 1 => PathsOf(s, run.src) = run.paths
    <3>1. run.paths \subseteq Plain \cup Dirs
      BY <2>2, RunFacts
    <3> QED
      BY <3>1 DEF PathsOf
  <2> QED
    BY <1>6, <2>1, <2>3, <2>4 DEF BuilderInv
<1>9. CASE WriteManifest
  <2>1. PICK left \in Directory :
              /\ WriteFile("manifest", "receipt", left)
              /\ left.manifest # NoFile /\ left.manifest.src = run.src
              /\ left.manifest.ev[1] = left.report /\ left.manifest.ev[2] = left.paths
              /\ \A p \in DOMAIN left.manifest.plain :
                    left.manifest.plain[p] = tree.plain[p]
              /\ left.report = d.report /\ left.paths = d.paths
    BY <1>9, StepManifest
  <2>2. run # Rest /\ run.pc = "manifest"
    BY <1>6, <2>1
  <2>3. /\ d.report # NoFile /\ d.report.src = run.src
        /\ d.paths # NoFile /\ d.paths.src = run.src
        /\ s = 1 => d.paths.set = run.paths
    BY <2>2 DEF BuilderInv
  <2> QED
    BY <1>6, <2>1, <2>3 DEF BuilderInv
<1>10. CASE WriteReceipt \/ Crash \/ Commit \/ \E t \in window : Remove(t) \/ Merge(t)
  <2>1. \A t \in window : Remove(t) => run' = Rest
    BY RemoveFacts, HandRun
  <2> QED
    BY <1>1, <1>10, <2>1 DEF WriteReceipt, Crash, Commit, Merge
<1> QED
  BY <1>2, <1>3, <1>4, <1>5, <1>7, <1>8, <1>9, <1>10 DEF Next

-----------------------------------------------------------------------------
(* A build that was not disturbed *)

LEMMA FirstBase ==
    ASSUME ChainTypeOK, HistoryInv
    PROVE  /\ Base(1) = 1 /\ log[1].ev[0] = Part1
           /\ \A d \in window : log[1].ev[d] = NoDir
           /\ \A t, x : x \in Changed(1, head, t) <=>
                 \/ x \in Plain /\ (\/ log[1].plain[x] # log[head].plain[x]
                                    \/ log[head].plain[x] # t.plain[x])
                 \/ x \in Dirs /\ (\/ log[1].ev[x] # log[head].ev[x]
                                   \/ log[head].ev[x] # t.ev[x])
<1>1. Base(1) = 1
  <2>1. 1 - 1 = 0 /\ 0 \notin window
    BY WindowFacts DEF ChainTypeOK
  <2> QED
    BY <2>1 DEF Base
<1>2. log[1].ev[0] = Part1 /\ \A d \in window : log[1].ev[d] = NoDir
  BY EntryFacts DEF HistoryInv, ChainTypeOK
<1> QED
  BY <1>1, <1>2 DEF Changed, Differ

LEMMA OwnPath ==
    ASSUME ChainTypeOK, HistoryInv, 1 \in window, NEW t, t.ev[1] # NoDir
    PROVE  1 \in Changed(1, head, t)
<1>1. 1 \in Dirs /\ log[1].ev[1] = NoDir
  BY FirstBase, WindowFacts DEF ChainTypeOK
<1> QED
  BY <1>1, FirstBase

(* What git calls changed is the same after the commit, if nothing that was
   changed has been put back. *)
LEMMA CommitKeepsChanged ==
    ASSUME ChainTypeOK, HistoryInv, Commit, 1 \in window, merged[1] = 0,
           tree.ev[1] # NoDir,
           \A p \in Changed(1, head, tree) \cap Plain : tree.plain[p] # log[1].plain[p]
    PROVE  Changed(1, head, tree)' = Changed(1, head, tree)
<1>1. /\ UNCHANGED <<window, tree, merged>> /\ log'[head'] = tree /\ log'[1] = log[1]
      /\ head \in 1..head
  BY CommitFacts, HeadFacts
<1>2. Base(1) = 1 /\ Base(1)' = 1 /\ Dirs' = Dirs
  BY <1>1, FirstBase DEF Base, Dirs
<1>3. \A x : x \in Changed(1, head, tree)' <=>
          \/ x \in Plain /\ log[1].plain[x] # tree.plain[x]
          \/ x \in Dirs /\ log[1].ev[x] # tree.ev[x]
  BY <1>1, <1>2 DEF Changed, Differ
<1>4. \A x : x \in Changed(1, head, tree) <=>
          \/ x \in Plain /\ (\/ log[1].plain[x] # log[head].plain[x]
                             \/ log[head].plain[x] # tree.plain[x])
          \/ x \in Dirs /\ (\/ log[1].ev[x] # log[head].ev[x]
                            \/ log[head].ev[x] # tree.ev[x])
  BY FirstBase
<1>5. ASSUME NEW x \in Dirs
      PROVE  log[1].ev[x] # tree.ev[x] <=> \/ log[1].ev[x] # log[head].ev[x]
                                           \/ log[head].ev[x] # tree.ev[x]
  <2>1. CASE x = 0
    <3>1. log[1].ev[0] = Part1 /\ (log[head].ev[0] = Part1 \/ log[head].ev[0] = tree.ev[0])
      BY <1>1, FirstBase DEF HistoryInv
    <3> QED
      BY <2>1, <3>1
  <2>2. CASE x = 1
    BY <2>2, FirstBase
  <2>3. CASE x # 0 /\ x # 1
    <3>1. x \in window \ {1}
      BY <2>3 DEF Dirs
    <3>2. log[1].ev[x] = NoDir /\ log[head].ev[x] = NoDir /\ tree.ev[x] = NoDir
      BY <1>1, <3>1, FirstBase DEF HistoryInv
    <3> QED
      BY <3>2
  <2> QED
    BY <2>1, <2>2, <2>3
<1>6. ASSUME NEW x \in Plain, x \in Changed(1, head, tree)
      PROVE  log[1].plain[x] # tree.plain[x]
  BY <1>6
<1>7. ASSUME NEW x
      PROVE  x \in Changed(1, head, tree)' <=> x \in Changed(1, head, tree)
  <2>1. CASE x \in Plain
    BY <1>3, <1>4, <1>5, <1>6, <2>1
  <2>2. CASE x \notin Plain
    BY <1>3, <1>4, <1>5, <2>2
  <2> QED
    BY <2>1, <2>2
<1> QED
  BY <1>7

FirstPaths ==
    fresh = 1 /\ merged[1] = 0 =>
        LET listed == tree.ev[1].paths.set
        IN  \/ listed = Changed(1, head, tree)
            \/ \E p \in listed \cap Plain : tree.plain[p] = log[1].plain[p]

FreshFiles ==
    fresh # 0 =>
        /\ fresh # 8 => Receipted(fresh, tree)
        /\ tree.ev[fresh].report # NoFile /\ tree.ev[fresh].receipt # NoFile
        /\ OneSource(fresh, tree) /\ ListedIn(fresh, tree, tree.plain)
        /\ tree.plain = log[tree.ev[fresh].receipt.src].plain

LEMMA FreshParts == FreshInv <=> FreshFiles /\ FirstPaths
BY DEF FreshInv, FreshFiles, FirstPaths, FinishedBuildVerifies, BoundAtSource

LEMMA FreshStep ==
    ASSUME ChainTypeOK, ChainTypeOK', BuilderInv, HistoryInv, FreshInv, [Next]_vars,
           \A s \in window : DirectoryInv(s)
    PROVE  (FreshFiles /\ FirstPaths)'
<1>0. FreshFiles /\ FirstPaths /\ fresh \in Dirs /\ (fresh # 0 => run = Rest)
  BY FreshParts DEF ChainTypeOK
<1>1. CASE fresh' = 0
  BY <1>1 DEF FreshFiles, FirstPaths
<1>2. CASE UNCHANGED vars
  <2>1. Changed(1, head, tree)' = Changed(1, head, tree)
    BY <1>2 DEF vars, Changed, Differ, Base, Dirs, head
  <2>2. FirstPaths'
    BY <1>0, <1>2, <2>1 DEF vars, FirstPaths
  <2>3. FreshFiles'
    BY <1>0, <1>2 DEF vars, FreshFiles, Receipted, OneSource, ListedIn
  <2> QED
    BY <2>2, <2>3
<1>3. ASSUME fresh # 0
      PROVE  fresh \in window /\ tree.ev[fresh].receipt.src \in 1..head
  <2>1. fresh \in window
    BY <1>0, <1>3 DEF Dirs
  <2> QED
    BY <1>0, <1>3, <2>1 DEF FreshFiles, DirectoryInv
<1>4. CASE Commit /\ fresh # 0
  <2>1. /\ UNCHANGED <<window, tree, merged, fresh>> /\ log'[1] = log[1]
        /\ \A i \in 1..head : log'[i] = log[i]
    BY <1>4, CommitFacts
  <2>2. FreshFiles'
    BY <1>0, <1>3, <1>4, <2>1 DEF FreshFiles, Receipted, OneSource, ListedIn
  <2>3. ASSUME fresh = 1, merged[1] = 0,
               \A p \in tree.ev[1].paths.set \cap Plain : tree.plain[p] # log[1].plain[p]
        PROVE  tree.ev[1].paths.set = Changed(1, head, tree)'
    <3>1. tree.ev[1].paths.set = Changed(1, head, tree) /\ tree.ev[1] # NoDir
      BY <1>0, <2>3, EmptyFiles DEF FirstPaths, FreshFiles
    <3> QED
      BY <1>3, <1>4, <2>3, <3>1, CommitKeepsChanged
  <2>4. FirstPaths'
    BY <2>1, <2>3 DEF FirstPaths
  <2> QED
    BY <2>2, <2>4
<1>5. ASSUME NEW s \in window, Merge(s), fresh # 0
      PROVE  (FreshFiles /\ FirstPaths)'
  <2>1. /\ UNCHANGED <<window, tree, log, fresh>> /\ merged' = [merged EXCEPT ![s] = head]
        /\ head # 0 /\ merged \in [window -> 0..head]
    BY <1>5, HeadFacts DEF Merge, ChainTypeOK
  <2>2. FreshFiles'
    BY <1>0, <2>1 DEF FreshFiles, Receipted, OneSource, ListedIn
  <2>3. fresh = 1 /\ merged'[1] = 0 => merged[1] = 0
    BY <1>3, <2>1
  <2>4. Changed(1, head, tree)' = Changed(1, head, tree)
    <3>1. Base(1)' = Base(1)
      <4>1. 1 - 1 = 0 /\ 0 \notin window
        BY WindowFacts DEF ChainTypeOK
      <4> QED
        BY <2>1, <4>1 DEF Base
    <3> QED
      BY <2>1, <3>1 DEF Changed, Differ, Dirs, head
  <2>5. FirstPaths'
    BY <1>0, <2>1, <2>3, <2>4 DEF FirstPaths
  <2> QED
    BY <2>2, <2>5
<1>6. ASSUME WriteReceipt, fresh' # 0
      PROVE  (FreshFiles /\ FirstPaths)'
  <2> DEFINE s == run.stage
  <2>1. PICK left \in Directory :
              /\ run # Rest /\ run.pc = "receipt"
              /\ left.receipt # NoFile /\ left.receipt.src = run.src
              /\ run.stage # 8 => left.receipt.digest = left.manifest
              /\ left.report = tree.ev[run.stage].report
              /\ left.paths = tree.ev[run.stage].paths
              /\ left.manifest = tree.ev[run.stage].manifest
              /\ fresh' = IF run.calm THEN run.stage ELSE 0
              /\ UNCHANGED <<window, log, merged>> /\ tree'.plain = tree.plain
              /\ tree'.ev[run.stage] = left
              /\ \A e \in Dirs \ {run.stage} : tree'.ev[e] = tree.ev[e]
    BY <1>6, StepReceipt
  <2>2. run.calm /\ fresh' = s /\ s \in window
    BY <1>6, <2>1, RunFacts
  <2>3. /\ left.report # NoFile /\ left.report.src = run.src
        /\ left.paths # NoFile /\ left.paths.src = run.src
        /\ s = 1 => left.paths.set = run.paths
        /\ left.manifest # NoFile /\ left.manifest.src = run.src
        /\ left.manifest.ev[2] = left.paths /\ left.manifest.ev[1] = left.report
        /\ tree.plain = log[run.src].plain
        /\ s = 1 /\ merged[1] = 0 => run.paths = Changed(1, head, tree) \cup {1}
        /\ \A p \in DOMAIN left.manifest.plain : left.manifest.plain[p] = tree.plain[p]
    <3> DEFINE d == tree.ev[s]
               m == d.manifest
    <3>1. d.report # NoFile /\ d.report.src = run.src
      BY <2>1 DEF BuilderInv
    <3>2. d.paths # NoFile /\ d.paths.src = run.src /\ (s = 1 => d.paths.set = run.paths)
      BY <2>1 DEF BuilderInv
    <3>3. m # NoFile /\ m.src = run.src /\ m.ev[2] = d.paths
      BY <2>1 DEF BuilderInv
    <3>4. /\ tree.plain = log[run.src].plain
          /\ s = 1 /\ merged[1] = 0 => run.paths = Changed(1, head, tree) \cup {1}
          /\ m.ev[1] = d.report
          /\ \A p \in DOMAIN m.plain : m.plain[p] = tree.plain[p]
      BY <2>1, <2>2 DEF BuilderInv
    <3> QED
      BY <2>1, <3>1, <3>2, <3>3, <3>4
  <2>4. left.manifest.ev = <<left.report, left.paths>>
    BY <2>3, DirectoryFields
  <2>5. s # 8 => Receipted(s, tree')
    BY <2>1, <2>3, <2>4 DEF Receipted
  <2>6. OneSource(s, tree') /\ ListedIn(s, tree', tree'.plain)
    BY <2>1, <2>3 DEF OneSource, ListedIn
  <2>7. FreshFiles'
    <3>1. /\ fresh' # 8 => Receipted(fresh', tree')
          /\ OneSource(fresh', tree') /\ ListedIn(fresh', tree', tree'.plain)
      BY <2>2, <2>5, <2>6
    <3>2. /\ tree'.ev[fresh'].report # NoFile /\ tree'.ev[fresh'].receipt # NoFile
          /\ tree'.plain = log'[tree'.ev[fresh'].receipt.src].plain
      BY <2>1, <2>2, <2>3
    <3> QED
      BY <3>1, <3>2 DEF FreshFiles
  <2>8. ASSUME s = 1, merged[1] = 0
        PROVE  left.paths.set = Changed(1, head, tree)'
    <3>1. left.paths.set = Changed(1, head, tree)' \cup {1}
      BY <2>1, <2>3, <2>8, ChangedElsewhere
    <3>2. tree'.ev[1] # NoDir
      BY <2>1, <2>8, EmptyFiles
    <3>3. 1 \in Changed(1, head, tree')
      BY <2>2, <2>8, <3>2, OwnPath
    <3>4. Changed(1, head, tree') = Changed(1, head, tree)'
      BY <2>1 DEF Changed, Differ, Base, Dirs, head
    <3> QED
      BY <3>1, <3>3, <3>4
  <2>9. FirstPaths'
    BY <2>1, <2>2, <2>8 DEF FirstPaths
  <2> QED
    BY <2>7, <2>9
<1>7. CASE \/ \E p \in Plain : Edit(p)
           \/ \E d \in Dirs : EditEvidence(d)
           \/ \E s \in window : Remove(s)
           \/ \E s \in window : \E src \in {head, head - 1} \ {0} : Begin(s, src)
  BY <1>1, <1>7 DEF Edit, EditEvidence, Remove, ByHand, Begin
<1>8. CASE WriteReport \/ WritePaths \/ WriteManifest \/ Crash
  <2>1. run # Rest
    BY <1>8, RunFacts DEF WriteReport, WritePaths, WriteManifest, WriteFile, Crash
  <2>2. fresh' = fresh
    BY <1>8 DEF WriteReport, WritePaths, WriteManifest, WriteFile, Crash
  <2> QED
    BY <1>0, <1>1, <2>1, <2>2
<1>9. CASE Commit \/ \E s \in window : Merge(s)
  <2>1. fresh' = fresh
    BY <1>9 DEF Commit, Merge
  <2> QED
    BY <1>1, <1>4, <1>5, <1>9, <2>1
<1> QED
  BY <1>1, <1>2, <1>6, <1>7, <1>8, <1>9 DEF Next

-----------------------------------------------------------------------------
(* Theorems *)

LEMMA Initially == Init => IInv
<1> SUFFICES ASSUME Init PROVE IInv
  OBVIOUS
<1>1. /\ window \in Windows /\ tree = Entry /\ log = <<Entry>>
      /\ merged = [s \in window |-> 0] /\ run = Rest /\ labs = 0 /\ edits = 0
      /\ outputs = [s \in window |-> {}] /\ fresh = 0
  BY DEF Init
<1>2. /\ Entry \in Tree /\ Entry.ev[0] = Part1 /\ \A d \in window : Entry.ev[d] = NoDir
      /\ 0 \in Dirs
  BY <1>1, EntryFacts, WindowFacts
<1>3. head = 1 /\ log \in Seq(Tree) /\ log[1] = Entry /\ Merged = {}
  BY <1>1, <1>2 DEF head, Merged
<1>4. ChainTypeOK
  BY <1>1, <1>2, <1>3 DEF ChainTypeOK
<1>5. HistoryInv
  BY <1>1, <1>2, <1>3 DEF HistoryInv
<1>6. MergeInv
  BY <1>3 DEF MergeInv
<1>7. \A s \in window : DirectoryInv(s)
  BY <1>1, <1>2, EmptyFiles DEF DirectoryInv
<1>8. BuilderInv /\ FreshInv
  BY <1>1 DEF BuilderInv, FreshInv
<1> QED
  BY <1>4, <1>5, <1>6, <1>7, <1>8 DEF IInv

(* In every reachable state the history, the directories and the running
   builder are as the gates suppose. *)
THEOREM Invariance == Spec => []IInv
<1>1. ASSUME IInv, [Next]_vars
      PROVE  IInv'
  <2>1. /\ ChainTypeOK /\ HistoryInv /\ MergeInv /\ BuilderInv /\ FreshInv
        /\ \A s \in window : DirectoryInv(s)
    BY <1>1 DEF IInv
  <2>2. ChainTypeOK'
    BY <1>1, <2>1, TypeStep
  <2>3. HistoryInv' /\ MergeInv'
    BY <1>1, <2>1, HistoryStep, MergeStep
  <2>4. \A s \in window : DirectoryInv(s)'
    BY <1>1, <2>1, <2>2, DirectoryStep
  <2>5. window' = window
    BY <1>1 DEF Next, Edit, EditEvidence, Remove, ByHand, Commit, Merge, Begin, WriteReport,
                WritePaths, WriteManifest, WriteFile, WriteReceipt, Crash, vars
  <2>6. BuilderInv'
    BY <1>1, <2>1, <2>2, BuilderStep
  <2>7. FreshInv'
    <3>1. (FreshFiles /\ FirstPaths)'
      BY <1>1, <2>1, <2>2, FreshStep
    <3> QED
      BY <3>1 DEF FreshInv, FreshFiles, FirstPaths, FinishedBuildVerifies, BoundAtSource
  <2> QED
    BY <2>2, <2>3, <2>4, <2>5, <2>6, <2>7 DEF IInv
<1>2. IInv /\ [Next]_vars => IInv'
  BY <1>1
<1> QED
  BY <1>2, Initially, PTL DEF Spec

(* A gate of stages 1 to 7 that passes stands on a directory as a finished
   builder left it, whatever dies, is edited, emptied or built again. *)
THEOREM GatesNeedAFinishedBuild == Spec => []GreenIsFinished
<1>1. ASSUME IInv, NEW s \in window \ {8}, Validate(s, tree, head)
      PROVE  tree.ev[s] \in outputs[s]
  <2> DEFINE d == tree.ev[s]
             m == d.receipt.digest
  <2>1. ChainTypeOK /\ DirectoryInv(s) /\ s \in Stages
    BY <1>1, WindowFacts DEF IInv, ChainTypeOK
  <2>2. Receipted(s, tree)
    BY <1>1, <2>1 DEF Validate, Validate1, Validate2, Validate3, Validate4, Validate5,
                      Validate6, Validate7
  <2>3. /\ d.report # NoFile /\ d.manifest # NoFile /\ d.receipt # NoFile
        /\ d.manifest.ev = <<d.report, d.paths>> /\ m = d.manifest
    BY <2>2 DEF Receipted
  <2>4. d \in Directory
    BY <2>1, TreeFields, WindowFacts DEF ChainTypeOK
  <2>5. m.ev[1] = d.report /\ m.ev[2] = d.paths /\ d.report.lab \in Nat
    BY <2>3, <2>4, DirectoryFields
  <2>6. ~(d.report.lab > m.ev[1].lab)
    BY <2>5
  <2>7. [report |-> m.ev[1], paths |-> m.ev[2],
         manifest |-> m, receipt |-> d.receipt] \in outputs[s]
    BY <1>1, <2>1, <2>3, <2>6 DEF DirectoryInv
  <2>8. d = [report |-> d.report, paths |-> d.paths,
             manifest |-> d.manifest, receipt |-> d.receipt]
    BY <2>4 DEF Directory
  <2> QED
    BY <2>3, <2>5, <2>7, <2>8
<1>2. IInv => GreenIsFinished
  BY <1>1 DEF GreenIsFinished
<1> QED
  BY <1>2, Invariance, PTL

(* What a builder leaves on the undisturbed tree of its source commit passes
   the gate it is written for, before and after it is committed. *)
THEOREM UndisturbedBuildsVerify == Spec => []FinishedBuildVerifies
<1>1. IInv => FinishedBuildVerifies
  BY DEF IInv, FreshInv, FinishedBuildVerifies
<1> QED
  BY <1>1, Invariance, PTL

(* On a committed, green tree the evidence behind a merged stage that looks
   back is what was merged, for any chain of stages. *)
THEOREM MergedEvidenceStays == Spec => []EvidenceAsMerged
<1>1. ASSUME IInv, tree = log[head], Green(Merged), NEW w \in Merged \cap {2, 4, 5, 8},
             NEW d \in Before(w) \ {5, 6}
      PROVE  tree.ev[d] = log[AsMerged(d)].ev[d]
  <2>1. ChainTypeOK /\ HistoryInv /\ MergeInv
    BY <1>1 DEF IInv
  <2>2. Preserved(tree) /\ Gate(w) /\ w \in Begun
    BY <1>1, <2>1, MergedInOrder DEF Green
  <2>3. \A e \in Before(w) : tree.ev[e] = log[Base(w)].ev[e]
    BY <1>1, <2>2, GateLooksBack
  <2> QED
    BY <2>1, <2>2, <2>3, BaseIsAsMerged
<1>2. IInv => EvidenceAsMerged
  BY <1>1 DEF EvidenceAsMerged
<1> QED
  BY <1>2, Invariance, PTL

(* What is merged, and its base, never change. *)
LEMMA HistoryStays ==
    ASSUME ChainTypeOK, HistoryInv, [Next]_vars
    PROVE  /\ window' = window /\ Dirs' = Dirs /\ head' \in Nat /\ head' >= head
           /\ \A i \in 1..head : log'[i] = log[i]
           /\ \A s \in Merged : /\ s \in Merged' /\ merged'[s] = merged[s]
                                /\ Base(s)' = Base(s) /\ Base(s) \in 1..head
<1>1. ASSUME window' = window, NEW s \in Merged,
             \A t \in Merged : merged'[t] = merged[t]
      PROVE  /\ s \in Merged' /\ merged'[s] = merged[s]
             /\ Base(s)' = Base(s) /\ Base(s) \in 1..head
  <2>1. s \in window /\ merged[s] # 0 /\ s \in Begun
    BY MergedInOrder DEF Merged
  <2>2. s - 1 \in window => s - 1 \in Merged
    BY <2>1 DEF Begun, Merged
  <2>3. \A t \in Merged : merged[t] \in 1..head
    BY MergedInOrder
  <2> QED
    BY <1>1, <2>1, <2>2, <2>3, HeadFacts DEF Merged, Base
<1>2. CASE Commit
  <2>1. /\ UNCHANGED <<window, merged>> /\ head' = head + 1 /\ head \in Nat
        /\ \A i \in 1..head : log'[i] = log[i]
    BY <1>2, CommitFacts
  <2> QED
    BY <1>1, <2>1 DEF Dirs
<1>3. ASSUME NEW t \in window, Merge(t)
      PROVE  /\ UNCHANGED <<window, log>> /\ \A s \in Merged : merged'[s] = merged[s]
  <2>1. t \notin Merged /\ merged' = [merged EXCEPT ![t] = head] /\ UNCHANGED <<window, log>>
        /\ merged \in [window -> 0..head]
    BY <1>3 DEF Merge, ChainTypeOK
  <2> QED
    BY <2>1 DEF Merged
<1>4. CASE UNCHANGED <<window, log>> /\ \A s \in Merged : merged'[s] = merged[s]
  BY <1>1, <1>4, HeadFacts DEF head, Dirs
<1>5. CASE UNCHANGED <<window, log, merged>>
  BY <1>4, <1>5
<1>6. CASE \/ \E p \in Plain : Edit(p)
           \/ \E d \in Dirs : EditEvidence(d)
           \/ \E s \in window : Remove(s)
           \/ \E s \in window : \E src \in {head, head - 1} \ {0} : Begin(s, src)
           \/ WriteReport \/ WritePaths \/ WriteManifest \/ WriteReceipt
           \/ Crash \/ UNCHANGED vars
  BY <1>5, <1>6 DEF Edit, EditEvidence, Remove, ByHand, Begin, WriteReport, WritePaths,
                    WriteManifest, WriteFile, WriteReceipt, Crash, vars
<1> QED
  BY <1>2, <1>3, <1>4, <1>6 DEF Next

(* The gates of 1 and 3 read nothing but commits once they are merged. *)
LEMMA FrozenStays ==
    ASSUME ChainTypeOK, HistoryInv, [Next]_vars, NEW s \in Merged \cap {1, 3}
    PROVE  /\ s = 1 /\ Frozen1 => Frozen1'
           /\ s = 3 /\ Frozen3 => Frozen3'
<1> DEFINE h == merged[s]
           t == log[h]
<1>1. /\ Dirs' = Dirs /\ merged'[s] = h /\ log'[h] = t /\ h \in 1..head
      /\ Base(s)' = Base(s) /\ log'[Base(s)] = log[Base(s)]
  BY HistoryStays, MergedInOrder
<1>2. Changed(s, merged[s], log[merged[s]])' = Changed(s, merged[s], log[merged[s]])
  BY <1>1 DEF Changed, Differ
<1>3. CASE s = 1
  <2>1. log'[merged'[1]] = log[merged[1]]
    BY <1>1, <1>3
  <2>2. Changed(1, merged[1], log[merged[1]])' = Changed(1, merged[1], log[merged[1]])
    BY <1>2, <1>3
  <2> QED
    BY <1>3, <2>1, <2>2 DEF Frozen1, Validate1
<1>4. CASE s = 3
  <2>1. PredecessorsStay(3, merged[3]) => PredecessorsStay(3, merged[3])'
    BY <1>1, <1>4 DEF PredecessorsStay, Before
  <2>2. log'[merged'[3]] = log[merged[3]]
    BY <1>1, <1>4
  <2>3. Changed(3, merged[3], log[merged[3]])' = Changed(3, merged[3], log[merged[3]])
    BY <1>2, <1>4
  <2> QED
    BY <1>4, <2>1, <2>2, <2>3 DEF Frozen3, Validate3
<1> QED
  BY <1>3, <1>4

(* The gates that look at the tree compare no more of it than the evidence of
   their stage and of those before it; stage 6 compares with commits. *)
LEMMA TreeGateStays ==
    ASSUME ChainTypeOK, HistoryInv, [Next]_vars, NEW s \in Merged \cap {2, 4, 5, 6},
           DirectoryInv(s), Validate(s, tree, head),
           \A d \in Before(s + 1) : tree'.ev[d] = tree.ev[d] /\ log'[head'].ev[d] = log[head].ev[d],
           Fits(s, tree')
    PROVE  Validate(s, tree, head)'
<1>1. /\ Dirs' = Dirs /\ merged'[s] = merged[s] /\ Base(s)' = Base(s)
      /\ merged[s] \in 1..head /\ Base(s) \in 1..head
      /\ \A i \in 1..head : log'[i] = log[i]
  BY HistoryStays, MergedInOrder
<1>2. s \in Before(s + 1) /\ Before(s) \subseteq Before(s + 1) /\ Before(s)' = Before(s)
  <2>1. s \in Dirs /\ Dirs \subseteq 0..8
    BY WindowFacts DEF Merged, ChainTypeOK
  <2> QED
    BY <1>1, <2>1 DEF Before
<1>3. tree'.ev[s] = tree.ev[s]
  BY <1>2
<1>4. /\ Receipted(s, tree) => Receipted(s, tree)'
      /\ OneSource(s, tree) => OneSource(s, tree)'
      /\ Fits(s, tree)'
  BY <1>3 DEF Receipted, OneSource, Fits
<1>5. PredecessorsStay(s, head) => PredecessorsStay(s, head)'
  BY <1>1, <1>2 DEF PredecessorsStay
<1>6. CASE s = 2
  <2>1. merged[2] # 0 /\ merged'[2] # 0
    BY <1>1, <1>6
  <2>2. Differ(log[Base(2)], log[merged[2]])' = Differ(log[Base(2)], log[merged[2]])
    BY <1>1, <1>6 DEF Differ
  <2> QED
    BY <1>4, <1>5, <1>6, <2>1, <2>2 DEF Validate, Validate2, InScope
<1>7. CASE s = 4
  BY <1>4, <1>5, <1>7 DEF Validate, Validate4
<1>8. CASE s = 5
  BY <1>4, <1>5, <1>8 DEF Validate, Validate5
<1>9. CASE s = 6
  <2>1. Receipted(6, tree) /\ BoundAtSource(6, tree)
    BY <1>9 DEF Validate, Validate6
  <2>2. tree.ev[6].receipt.src \in 1..head
    BY <1>9, <2>1 DEF Receipted, DirectoryInv
  <2>3. BoundAtSource(6, tree)'
    <3>1. log'[tree.ev[6].receipt.src] = log[tree.ev[6].receipt.src] /\ tree'.ev[6] = tree.ev[6]
      BY <1>1, <1>3, <1>9, <2>2
    <3> QED
      BY <2>1, <3>1 DEF BoundAtSource, ListedIn
  <2> QED
    BY <1>4, <1>9, <2>1, <2>3 DEF Validate, Validate6
<1> QED
  BY <1>6, <1>7, <1>8, <1>9

(* Whatever is edited, committed, built and merged later, the gate of a merged
   stage 1 to 6 stays green while the evidence it reads stays and, for 2, 4, 5
   and 6, the tree meets what the validator asks of it. *)
THEOREM GatesStayGreen == Spec => LaterWorkKeepsGates
<1>1. ASSUME IInv, [Next]_vars, NEW s \in Merged \ {7, 8}, Gate(s),
             \A d \in Before(s + 1) : /\ tree'.ev[d] = tree.ev[d]
                                      /\ log'[Len(log')].ev[d] = log[head].ev[d],
             s \in {1, 3} \/ Fits(s, tree')
      PROVE  Gate(s)'
  <2>1. ChainTypeOK /\ HistoryInv /\ s \in window /\ s \in 1..6
    <3>1. ChainTypeOK /\ HistoryInv
      BY <1>1 DEF IInv
    <3>2. s \in window /\ s \notin {7, 8}
      BY <1>1 DEF Merged
    <3>3. s \in 1..8
      BY <3>1, <3>2, WindowFacts DEF ChainTypeOK, Stages
    <3>4. s \in 1..6
      BY <3>2, <3>3
    <3> QED
      BY <3>1, <3>2, <3>4
  <2>2. s \in Merged'
    BY <1>1, <2>1, HistoryStays
  <2>3. CASE s = 1
    BY <1>1, <2>1, <2>2, <2>3, FrozenStays DEF Gate
  <2>4. CASE s = 3
    BY <1>1, <2>1, <2>2, <2>4, FrozenStays DEF Gate
  <2>5. CASE s \in {2, 4, 5, 6}
    <3>1. Validate(s, tree, head) /\ DirectoryInv(s)
      BY <1>1, <2>1, <2>5 DEF Gate, IInv
    <3>2. \A d \in Before(s + 1) : tree'.ev[d] = tree.ev[d]
                                   /\ log'[head'].ev[d] = log[head].ev[d]
      BY <1>1 DEF head
    <3>3. Fits(s, tree')
      BY <1>1, <2>5
    <3>4. Validate(s, tree, head)'
      BY <1>1, <2>1, <2>5, <3>1, <3>2, <3>3, TreeGateStays
    <3> QED
      BY <2>5, <3>4 DEF Gate
  <2> QED
    BY <2>1, <2>3, <2>4, <2>5
<1>2. IInv /\ [Next]_vars =>
         \A s \in Merged \ {7, 8} :
            Gate(s) /\ (\A d \in Before(s + 1) : tree'.ev[d] = tree.ev[d]
                                        /\ log'[Len(log')].ev[d] = log[head].ev[d])
                    /\ (s \in {1, 3} \/ Fits(s, tree'))
               => Gate(s)'
  BY <1>1
<1> QED
  BY <1>2, Invariance, PTL DEF Spec, LaterWorkKeepsGates
=============================================================================
