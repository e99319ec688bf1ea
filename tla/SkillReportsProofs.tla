------------------------- MODULE SkillReportsProofs -------------------------
(***************************************************************************)
(* For every tree, every manifest and any number of edits: the ways in     *)
(* which the reports can harm the check that reads them, what a check that *)
(* passes undisturbed has shown, and what its reports hold.                *)
(***************************************************************************)
EXTENDS SkillReports, FiniteSetTheorems, TLAPS

-----------------------------------------------------------------------------
(* The reports.                                                            *)

\* A report has no links, and fence marks only where the exclusion report has
\* a target that is spelt with them.
Fit(r, c) ==
  \A l \in c.lines :
    /\ l.links = {}
    /\ l.marks # 0 => r = RAW_REFERENCE_EXCLUSIONS /\ l.text[3].marks # 0

ReportsFit == \A r \in Reports \cap DOMAIN tree : Fit(r, tree[r])

\* Nothing is wrong with the links and the fences of a page that has none
\* (verify_skills.py 98-109).
LEMMA PlainInOrder ==
  ASSUME NEW c, \A l \in c.lines : l.links = {} /\ l.marks = 0
  PROVE  LinksOf(c) = {} /\ ~Unbalanced(c)
<1>1. LinksOf(c) = {}
  BY DEF LinksOf
<1>2. Odd(c) = {}
  BY DEF Odd
<1>3. Cardinality(Odd(c)) = 0
  BY <1>2, FS_EmptySet
<1>4. ~Unbalanced(c)
  BY <1>3 DEF Unbalanced
<1> QED
  BY <1>1, <1>4

\* The rows of both reports are fit (136-163).
LEMMA RowsFit ==
  /\ \A r : Fit(r, Blank)
  /\ Fit(SUPPLY_CHAIN_SCAN, Report(ScanRows))
  /\ Fit(RAW_REFERENCE_EXCLUSIONS, Report(ExclusionRows))
<1>1. \A r : Fit(r, Blank)
  BY DEF Fit, Blank, Report
<1>2. Fit(SUPPLY_CHAIN_SCAN, Report(ScanRows))
  BY DEF Fit, Report, ScanRows, ScanRow, Escaped, Row
<1>3. Fit(RAW_REFERENCE_EXCLUSIONS, Report(ExclusionRows))
  BY DEF Fit, Report, ExclusionRows, ExclusionRow, Row
<1> QED
  BY <1>1, <1>2, <1>3

\* A fit report is fit wherever it is cut.
LEMMA CutsFit ==
  ASSUME NEW r, NEW rows, Fit(r, Report(rows)), NEW c \in Cuts(rows)
  PROVE  Fit(r, c)
<1>1. CASE c \in {Report(some) : some \in SUBSET rows}
  BY <1>1 DEF Fit, Report
<1>2. CASE c \notin {Report(some) : some \in SUBSET rows}
  <2>1. PICK torn \in UNION {CutIn(row, rows) : row \in rows}, whole \in BOOLEAN :
          c = [Report(torn) EXCEPT !.utf8 = whole]
    BY <1>2 DEF Cuts
  <2>2. PICK row \in rows : torn \in CutIn(row, rows)
    OBVIOUS
  <2> PICK some \in SUBSET (rows \ {row}), cut \in CutOf(row) : torn = some \cup {cut}
    BY <2>2 DEF CutIn
  <2>3. c.lines = some \cup {cut}
    BY <2>1 DEF Report
  <2>4. PICK n \in 0 .. row.marks : cut = [row EXCEPT !.marks = n]
    BY DEF CutOf
  <2>5. \A l \in rows :
          /\ l.links = {}
          /\ l.marks # 0 => r = RAW_REFERENCE_EXCLUSIONS /\ l.text[3].marks # 0
    BY DEF Fit, Report
  <2>6. cut.links = row.links /\ cut.text = row.text
    BY <2>4
  <2>7. cut.marks # 0 => row.marks # 0
    BY <2>4
  <2> QED
    BY <2>3, <2>5, <2>6, <2>7 DEF Fit
<1> QED
  BY <1>1, <1>2

\* Saving a fit report leaves the reports fit.
LEMMA SavedFit ==
  ASSUME ReportsFit, NEW r \in Reports, NEW c, Fit(r, c),
         tree' = Saved(r, c) \/ tree' = Filled(r, c)
  PROVE  ReportsFit'
  BY DEF ReportsFit, Filled, Saved

\* Every step leaves the reports fit.
LEMMA FitStep == ReportsFit /\ [Next]_vars => ReportsFit'
<1> SUFFICES ASSUME ReportsFit, [Next]_vars PROVE ReportsFit'
  OBVIOUS
<1>1. CASE tree' = tree
  BY <1>1 DEF ReportsFit
<1>2. CASE OpenScan
  BY <1>2, RowsFit, SavedFit DEF OpenScan, Write, Reports
<1>3. CASE FlushScan
  BY <1>3, RowsFit, CutsFit, SavedFit DEF FlushScan, Write, Reports
<1>4. CASE FillScan
  BY <1>4, RowsFit, SavedFit DEF FillScan, Write, Reports
<1>5. CASE OpenExclusions
  BY <1>5, RowsFit, SavedFit DEF OpenExclusions, Write, Reports
<1>6. CASE FlushExclusions
  BY <1>6, RowsFit, CutsFit, SavedFit DEF FlushExclusions, Write, Reports
<1>7. CASE FillExclusions
  BY <1>7, RowsFit, SavedFit DEF FillExclusions, Write, Reports
<1>8. CASE Edit
  BY <1>8 DEF Edit, Saved, ReportsFit
<1>9. CASE Remove
  BY <1>9 DEF Remove, ReportsFit
<1> QED
  BY <1>1, <1>2, <1>3, <1>4, <1>5, <1>6, <1>7, <1>8, <1>9
  DEF Next, vars, Start, Advance, CheckSkills, CheckManifest, CheckInventory,
      CheckLinks, Scan, Judge, Raise, Kill, Stop, Declare, Withdraw

\* The reports are at the top, where no skill and no vendored file is.
LEMMA ReportsApart ==
  \A r \in Reports : ~Raw(r) /\ r.area # "skills" /\ r.name # "SKILL.md"
  BY ReportsAssumption DEF Raw

\* Fit reports that are neither marked nor cut within a character do no harm:
\* what is in order without them is in order.
LEMMA FitDoesNoHarm == ReportsFit => NoOtherHarm
<1> SUFFICES ASSUME ReportsFit, InOrder(Unreported, manifest), ~Marked,
                    Readable(tree, Reports \cap DOMAIN tree)
             PROVE  InOrder(tree, manifest)
  BY DEF NoOtherHarm
<1>1. /\ DOMAIN Unreported = DOMAIN tree
      /\ \A p \in DOMAIN tree \ Reports : Unreported[p] = tree[p]
  BY DEF Unreported
<1>2. /\ active(Unreported) = active(tree)
      /\ actual(Unreported) = actual(tree)
      /\ \A p \in active(tree) \cup actual(tree) : Unreported[p] = tree[p]
  BY <1>1, ReportsApart DEF active, actual, Raw
<1>0. Readable(tree, active(tree) \cup actual(tree) \cup Markdown(tree))
  <2> SUFFICES ASSUME NEW p \in active(tree) \cup actual(tree) \cup Markdown(tree)
               PROVE  p \in DOMAIN tree /\ tree[p].utf8
    BY DEF Readable
  <2>1. p \in DOMAIN tree
    BY DEF active, actual, Markdown
  <2>2. CASE p \in Reports
    BY <2>1, <2>2 DEF Readable
  <2>3. CASE p \notin Reports
    <3>1. p \in active(Unreported) \cup actual(Unreported) \cup Markdown(Unreported)
      BY <1>1, <1>2 DEF Markdown
    <3>2. Unreported[p].utf8
      BY <3>1 DEF InOrder, Readable
    <3> QED
      BY <1>1, <2>1, <2>3, <3>2
  <2> QED
    BY <2>2, <2>3
<1>3. SkillsInOrder(tree)
  BY <1>1, <1>2 DEF InOrder, SkillsInOrder
<1>4. actual(tree) = declared(manifest)
  BY <1>2 DEF InOrder
<1>5. ManifestInOrder(tree, manifest)
  <2> SUFFICES ASSUME NEW entry \in manifest PROVE EntryInOrder(tree, entry)
    BY DEF ManifestInOrder
  <2>1. EntryInOrder(Unreported, entry)
    BY DEF InOrder, ManifestInOrder
  <2>2. entry.local_path \in actual(tree)
    BY <1>4 DEF declared
  <2> QED
    BY <2>1, <2>2, <1>1, <1>2 DEF EntryInOrder
<1>6. LinksInOrder(tree)
  <2> SUFFICES ASSUME NEW p \in Markdown(tree), ~Raw(p)
               PROVE  /\ ~Unbalanced(tree[p])
                      /\ \A link \in LinksOf(tree[p]) : ~Dead(tree, link)
    BY DEF LinksInOrder
  <2>1. CASE p \in Reports
    <3>1. \A l \in tree[p].lines : l.links = {} /\ l.marks = 0
      BY <2>1 DEF ReportsFit, Fit, Marked, Markdown
    <3> QED
      BY <3>1, PlainInOrder
  <2>2. CASE p \notin Reports
    <3>1. p \in Markdown(Unreported) /\ Unreported[p] = tree[p]
      BY <1>1, <2>2 DEF Markdown
    <3>2. /\ ~Unbalanced(tree[p])
          /\ \A link \in LinksOf(tree[p]) : ~Dead(Unreported, link)
      BY <3>1 DEF InOrder, LinksInOrder
    <3> QED
      BY <3>2, <1>1 DEF Dead
  <2> QED
    BY <2>1, <2>2
<1> QED
  BY <1>0, <1>3, <1>4, <1>5, <1>6 DEF InOrder

\* Whatever the runs before have left, wherever they were killed and whatever
\* the vendored pages hold: a directory that is in order without the reports
\* fails the check with them only if one was cut within a character or has
\* the fence marks of a vendored target (verify_skills.py 95-164).
THEOREM ReportsDoNoOtherHarm == Spec => []NoOtherHarm
<1>1. Init => ReportsFit
  BY ReportsAssumption DEF Init, ReportsFit, Fit
<1>2. Spec => []ReportsFit
  BY <1>1, FitStep, PTL DEF Spec
<1> QED
  BY <1>2, FitDoesNoHarm, PTL

-----------------------------------------------------------------------------
(* What a run that nobody disturbs has shown by the step it has reached.   *)

\* The run is past the inventory, or has passed.
Later == step \in {"links", "scan", "judge"} \cup Writing \/ verdict = "PASS"

RunShape == /\ {"ok", "declared"} \subseteq DOMAIN run
            /\ run.ok \in BOOLEAN

Shown ==
  /\ step # "idle" => verdict = "none"
  /\ verdict = "PASS" => run.ok
  /\ calm =>
       /\ step = "inventory" => run.declared = declared(manifest)
       /\ run.ok =>
            /\ step \in {"manifest", "inventory"} \/ Later => SkillsInOrder(tree)
            /\ step = "inventory" \/ Later => ManifestInOrder(tree, manifest)
            /\ Later => actual(tree) = declared(manifest)

SInv == RunShape /\ Shown

\* Writing a report changes no skill and no vendored file.
LEMMA SavedReport ==
  ASSUME NEW r \in Reports, NEW c,
         SkillsInOrder(tree), ManifestInOrder(tree, manifest),
         actual(tree) = declared(manifest)
  PROVE  /\ SkillsInOrder(Saved(r, c))
         /\ ManifestInOrder(Saved(r, c), manifest)
         /\ actual(Saved(r, c)) = declared(manifest)
<1> DEFINE t == Saved(r, c)
<1>1. /\ DOMAIN t = DOMAIN tree \cup {r}
      /\ \A p \in DOMAIN tree : p # r => t[p] = tree[p]
  BY DEF Saved
<1>2. /\ active(t) = active(tree)
      /\ actual(t) = actual(tree)
      /\ \A p \in active(tree) \cup actual(tree) : t[p] = tree[p]
  BY <1>1, ReportsApart DEF active, actual, Raw
<1> HIDE DEF t
<1>3. SkillsInOrder(t)
  BY <1>1, <1>2, ReportsApart DEF SkillsInOrder
<1>4. ManifestInOrder(t, manifest)
  <2> SUFFICES ASSUME NEW entry \in manifest PROVE EntryInOrder(t, entry)
    BY DEF ManifestInOrder
  <2>1. EntryInOrder(tree, entry)
    BY DEF ManifestInOrder
  <2>2. entry.local_path \in actual(tree)
    BY DEF declared
  <2> QED
    BY <2>1, <2>2, <1>1, <1>2 DEF EntryInOrder
<1> QED
  BY <1>2, <1>3, <1>4 DEF t

\* The steps that write a report.
WritesReport == \/ OpenScan \/ FlushScan \/ FillScan
                \/ OpenExclusions \/ FlushExclusions \/ FillExclusions

LEMMA RunShapeStep == RunShape /\ [Next]_vars => RunShape'
<1> SUFFICES ASSUME RunShape, [Next]_vars PROVE RunShape'
  OBVIOUS
<1>1. CASE run' = run
  BY <1>1 DEF RunShape
<1>2. CASE Start
  BY <1>2 DEF Start, Fresh, RunShape
<1>3. CASE CheckSkills
  BY <1>3 DEF CheckSkills, RunShape, SkillsInOrder
<1>4. CASE CheckManifest
  BY <1>4 DEF CheckManifest, RunShape
<1>5. CASE CheckInventory
  BY <1>5 DEF CheckInventory, RunShape
<1>6. CASE CheckLinks
  BY <1>6 DEF CheckLinks, RunShape
<1>7. CASE Scan
  BY <1>7 DEF Scan, RunShape
<1> QED
  BY <1>1, <1>2, <1>3, <1>4, <1>5, <1>6, <1>7
  DEF Next, vars, OpenScan, FlushScan, FillScan, OpenExclusions, FlushExclusions,
      FillExclusions, Write, Judge, Raise, Kill, Stop, Edit, Remove, Declare,
      Withdraw, Touch

LEMMA ShownWrite ==
  ASSUME SInv, NEW from \in Writing, NEW to \in Writing \cup {"judge"},
         NEW r \in Reports, NEW c, NEW t \in {Saved(r, c), Filled(r, c)},
         Write(from, to, t)
  PROVE  Shown'
<1>1. CASE t = tree
  BY <1>1 DEF SInv, Shown, Later, Writing, Write
<1>2. CASE t = Saved(r, c)
  BY <1>2, SavedReport DEF SInv, Shown, Later, Writing, Write
<1> QED
  BY <1>1, <1>2 DEF Filled

LEMMA ShownStep == SInv /\ [Next]_vars => Shown'
<1> SUFFICES ASSUME SInv, [Next]_vars PROVE Shown'
  OBVIOUS
<1>1. CASE UNCHANGED vars
  BY <1>1 DEF SInv, Shown, Later, vars
<1>2. CASE Start
  BY <1>2 DEF SInv, Shown, Later, Writing, Start
<1>3. CASE CheckSkills
  BY <1>3 DEF SInv, RunShape, Shown, Later, Writing, CheckSkills, Advance
<1>4. CASE CheckManifest
  BY <1>4 DEF SInv, RunShape, Shown, Later, Writing, CheckManifest, Advance
<1>5. CASE CheckInventory
  BY <1>5 DEF SInv, RunShape, Shown, Later, Writing, CheckInventory, Advance
<1>6. CASE CheckLinks
  BY <1>6 DEF SInv, RunShape, Shown, Later, Writing, CheckLinks, Advance
<1>7. CASE Scan
  BY <1>7 DEF SInv, RunShape, Shown, Later, Writing, Scan, Advance
<1>8. CASE Raise
  BY <1>8 DEF SInv, Shown, Later, Writing, Raise, Stop
<1>9. CASE WritesReport
  BY <1>9, ShownWrite
  DEF WritesReport, OpenScan, FlushScan, FillScan, OpenExclusions, FlushExclusions,
      FillExclusions, Writing, Reports
<1>10. CASE Judge
  BY <1>10 DEF SInv, Shown, Later, Writing, Judge, Stop
<1>11. CASE Kill
  BY <1>11 DEF SInv, Shown, Later, Writing, Kill, Stop
<1>12. CASE Edit \/ Remove \/ Declare \/ Withdraw
  BY <1>12 DEF SInv, Shown, Edit, Remove, Declare, Withdraw, Touch
<1> QED
  BY <1>1, <1>2, <1>3, <1>4, <1>5, <1>6, <1>7, <1>8, <1>9, <1>10, <1>11, <1>12
  DEF Next, WritesReport

\* The three parts of the check together say what a pass means.
LEMMA ShownInactive == SInv => PassMeansInactive
<1> SUFFICES ASSUME SInv, verdict = "PASS", calm PROVE PassMeansInactive
  BY DEF PassMeansInactive
<1>1. /\ SkillsInOrder(tree)
      /\ ManifestInOrder(tree, manifest)
      /\ actual(tree) = declared(manifest)
  BY DEF SInv, Shown, Later
<1>2. ASSUME NEW p \in DOMAIN tree, p.area = "vendor"
      PROVE  /\ p.name \notin {"SKILL.md", "AGENTS.md", "openai.yaml"}
             /\ p.suffix \in {".md", ".txt", ""}
             /\ \E entry \in manifest : /\ entry.local_path = p
                                        /\ entry.pinned
                                        /\ entry.sha256 = tree[p]
  <2>1. PICK entry \in manifest : entry.local_path = p
    BY <1>1, <1>2 DEF actual, Raw, declared
  <2>2. EntryInOrder(tree, entry)
    BY <1>1 DEF ManifestInOrder
  <2> QED
    BY <2>1, <2>2 DEF EntryInOrder, Inert
<1>3. ASSUME NEW p \in DOMAIN tree, p.name = "SKILL.md"
      PROVE  p.area = "skills" /\ p.dir \in expected
  BY <1>1, <1>3 DEF SkillsInOrder, active
<1> QED
  BY <1>2, <1>3 DEF PassMeansInactive

\* A check that passes while nobody edits has shown every vendored file
\* inert and pinned to its bytes, and every skill one of the expected
\* (verify_skills.py 52-93).
THEOREM PassAlwaysMeansInactive == Spec => []PassMeansInactive
<1>1. Init => SInv
  BY DEF Init, SInv, RunShape, Shown, Later, Writing, Fresh
<1>2. SInv /\ [Next]_vars => SInv'
  BY RunShapeStep, ShownStep DEF SInv
<1>3. Spec => []SInv
  BY <1>1, <1>2, PTL DEF Spec
<1> QED
  BY <1>3, ShownInactive, PTL

-----------------------------------------------------------------------------
(* What a run that nobody disturbs has noted and written.                  *)

Concluded == verdict \in {"PASS", "FAIL"}
AfterSkills == step \in {"manifest", "inventory", "links", "scan", "judge"} \cup Writing \/ Concluded
AfterInventory == step \in {"links", "scan", "judge"} \cup Writing \/ Concluded
AfterLinks == step \in {"scan", "judge"} \cup Writing \/ Concluded
AfterScan == step \in {"judge"} \cup Writing \/ Concluded
AfterScanReport == step \in {"open exclusions", "fill exclusions", "judge"} \/ Concluded
AfterReports == step = "judge" \/ Concluded

\* The dead links of vendored pages, but for those to a report.
Lasting(excluded) == {e \in excluded : e[3].to \notin Reports}

Variables == {"write", "ok", "active", "declared", "actual", "exclusions", "findings"}

\* What the run holds is what is on disk, and what is in a report is what the
\* run holds.
Noted ==
  calm =>
    /\ AfterSkills => run.active = active(tree)
    /\ AfterInventory => run.actual = actual(tree)
    /\ AfterLinks => Lasting(run.exclusions) = Lasting(exclusions(tree))
    /\ AfterScan => run.findings = findings(tree, actual(tree), active(tree))
    /\ step = "fill scan" => SUPPLY_CHAIN_SCAN \in DOMAIN tree
    /\ step = "fill exclusions" => RAW_REFERENCE_EXCLUSIONS \in DOMAIN tree
    /\ run.write /\ AfterScanReport =>
         /\ SUPPLY_CHAIN_SCAN \in DOMAIN tree
         /\ tree[SUPPLY_CHAIN_SCAN] = Report(ScanRows)
    /\ run.write /\ AfterReports =>
         /\ RAW_REFERENCE_EXCLUSIONS \in DOMAIN tree
         /\ tree[RAW_REFERENCE_EXCLUSIONS] = Report(ExclusionRows)

NInv == /\ Variables \subseteq DOMAIN run
        /\ step # "idle" => verdict = "none"
        /\ Noted

\* Writing a report changes nothing of what the reports are about.
LEMMA SavedApart ==
  ASSUME NEW r \in Reports, NEW c
  PROVE  LET t == Saved(r, c) IN
           /\ active(t) = active(tree) /\ actual(t) = actual(tree)
           /\ findings(t, actual(t), active(t)) = findings(tree, actual(tree), active(tree))
           /\ Lasting(exclusions(t)) = Lasting(exclusions(tree))
<1> DEFINE t == Saved(r, c)
<1>1. /\ DOMAIN t = DOMAIN tree \cup {r} /\ t[r] = c
      /\ \A p \in DOMAIN tree : p # r => t[p] = tree[p]
  BY DEF Saved
<1> HIDE DEF t
<1>2. /\ active(t) = active(tree) /\ actual(t) = actual(tree)
      /\ \A p \in active(tree) \cup actual(tree) : t[p] = tree[p]
  BY <1>1, ReportsApart DEF active, actual, Raw
<1>3. findings(t, actual(t), active(t)) = findings(tree, actual(tree), active(tree))
  BY <1>2 DEF findings
<1>4. {q \in Markdown(t) : Raw(q)} = {q \in Markdown(tree) : Raw(q)}
  BY <1>1, ReportsApart DEF Markdown
<1>5. \A q \in {p \in Markdown(tree) : Raw(p)} : t[q] = tree[q]
  BY <1>1, ReportsApart DEF Markdown
<1>6. \A d : d.to \notin Reports => (Dead(t, d) <=> Dead(tree, d))
  BY <1>1 DEF Dead
<1>7. ASSUME NEW e, e[3].to \notin Reports
      PROVE  e \in exclusions(t) <=> e \in exclusions(tree)
  <2>1. \A u, q : e \in DeadIn(u, q) <=>
          \E l \in u[q].lines : \E d \in l.links :
            Dead(u, d) /\ e = <<q, l.text, d>>
    BY DEF DeadIn
  <2>2. \A q \in {p \in Markdown(tree) : Raw(p)} :
          e \in DeadIn(t, q) <=> e \in DeadIn(tree, q)
    BY <1>5, <1>6, <1>7, <2>1
  <2> QED
    BY <1>4, <2>2 DEF exclusions
<1>8. Lasting(exclusions(t)) = Lasting(exclusions(tree))
  BY <1>7 DEF Lasting
<1> QED
  BY <1>2, <1>3, <1>8 DEF t

\* The tree when something has been written to a report.
Stored(r, t) == \E c : t \in {Saved(r, c), Filled(r, c)}

LEMMA StoredTrees ==
  ASSUME NEW r, NEW c
  PROVE  Stored(r, Saved(r, c)) /\ Stored(r, Filled(r, c))
  BY DEF Stored

\* What has been noted before a step of a report is so after it.
StillNoted(from, to) ==
  /\ calm /\ run' = run /\ ~Concluded' /\ step = from /\ step' = to
  /\ ScanRows' = ScanRows /\ ExclusionRows' = ExclusionRows
  /\ run'.active = active(tree')
  /\ run'.actual = actual(tree')
  /\ Lasting(run'.exclusions) = Lasting(exclusions(tree'))
  /\ run'.findings = findings(tree', actual(tree'), active(tree'))

LEMMA NotedWrite ==
  ASSUME NInv, NEW from \in Writing, NEW to, NEW r \in Reports,
         NEW t, Stored(r, t), Write(from, to, t), calm'
  PROVE  StillNoted(from, to)
<1>1. /\ step = from /\ step' = to /\ tree' = t /\ run' = run /\ calm
      /\ verdict' = verdict
  BY DEF Write
<1>2. verdict = "none"
  BY <1>1 DEF NInv, Writing
<1>3. ~Concluded /\ ~Concluded'
  BY <1>1, <1>2 DEF Concluded
<1>4. AfterSkills /\ AfterInventory /\ AfterLinks /\ AfterScan
  BY <1>1 DEF AfterSkills, AfterInventory, AfterLinks, AfterScan
<1>5. /\ run.active = active(tree) /\ run.actual = actual(tree)
      /\ Lasting(run.exclusions) = Lasting(exclusions(tree))
      /\ run.findings = findings(tree, actual(tree), active(tree))
  BY <1>1, <1>4 DEF NInv, Noted
<1>6. ScanRows' = ScanRows /\ ExclusionRows' = ExclusionRows
  BY <1>1 DEF ScanRows, ExclusionRows
<1>7. CASE t = tree
  BY <1>1, <1>3, <1>5, <1>6, <1>7 DEF StillNoted
<1>8. ASSUME NEW c, t = Saved(r, c)
      PROVE  /\ run'.active = active(tree')
             /\ run'.actual = actual(tree')
             /\ Lasting(run'.exclusions) = Lasting(exclusions(tree'))
             /\ run'.findings = findings(tree', actual(tree'), active(tree'))
  BY <1>1, <1>5, <1>8, SavedApart
<1> QED
  BY <1>1, <1>3, <1>6, <1>7, <1>8 DEF StillNoted, Stored, Filled

LEMMA NotedReports == ASSUME NInv, WritesReport PROVE Noted'
<1> SUFFICES ASSUME calm' PROVE Noted'
  BY DEF Noted
<1> USE DEF Noted, AfterSkills, AfterInventory, AfterLinks, AfterScan
<1>1. /\ SUPPLY_CHAIN_SCAN \in Reports /\ RAW_REFERENCE_EXCLUSIONS \in Reports
      /\ SUPPLY_CHAIN_SCAN # RAW_REFERENCE_EXCLUSIONS
  BY ReportsAssumption DEF Reports
<1>2. CASE OpenScan
  <2>1. tree' = Saved(SUPPLY_CHAIN_SCAN, Blank)
    BY <1>2 DEF OpenScan, Write
  <2>2. SUPPLY_CHAIN_SCAN \in DOMAIN tree'
    BY <2>1 DEF Saved
  <2>3. Write("open scan", "fill scan", Saved(SUPPLY_CHAIN_SCAN, Blank))
    BY <1>2 DEF OpenScan
  <2>4. StillNoted("open scan", "fill scan")
    BY <1>1, <2>3, StoredTrees, NotedWrite DEF Writing
  <2> QED
    BY <1>1, <2>2, <2>4 DEF StillNoted, AfterScanReport, AfterReports
<1>3. CASE FlushScan
  <2>1. PICK c \in Cuts(ScanRows) :
          Write("fill scan", "fill scan", Filled(SUPPLY_CHAIN_SCAN, c))
    BY <1>3 DEF FlushScan
  <2>2. SUPPLY_CHAIN_SCAN \in DOMAIN tree'
    BY <2>1 DEF NInv, Write, Filled, Saved
  <2> QED
    BY <1>1, <2>1, <2>2, StoredTrees, NotedWrite
    DEF StillNoted, Writing, AfterScanReport, AfterReports
<1>4. CASE FillScan
  <2>1. /\ tree' = Filled(SUPPLY_CHAIN_SCAN, Report(ScanRows))
        /\ SUPPLY_CHAIN_SCAN \in DOMAIN tree
    BY <1>4 DEF NInv, FillScan, Write
  <2>2. SUPPLY_CHAIN_SCAN \in DOMAIN tree' /\ tree'[SUPPLY_CHAIN_SCAN] = Report(ScanRows)
    BY <2>1 DEF Filled, Saved
  <2>3. Write("fill scan", "open exclusions", Filled(SUPPLY_CHAIN_SCAN, Report(ScanRows)))
    BY <1>4 DEF FillScan
  <2>4. StillNoted("fill scan", "open exclusions")
    BY <1>1, <2>3, StoredTrees, NotedWrite DEF Writing
  <2> QED
    BY <1>1, <2>2, <2>4 DEF StillNoted, AfterReports
<1>5. CASE OpenExclusions
  <2>1. step = "open exclusions" /\ tree' = Saved(RAW_REFERENCE_EXCLUSIONS, Blank) /\ calm
    BY <1>5 DEF OpenExclusions, Write
  <2>2. /\ RAW_REFERENCE_EXCLUSIONS \in DOMAIN tree'
        /\ run.write => /\ SUPPLY_CHAIN_SCAN \in DOMAIN tree'
                        /\ tree'[SUPPLY_CHAIN_SCAN] = Report(ScanRows)
    BY <1>1, <2>1 DEF NInv, AfterScanReport, Saved
  <2>3. Write("open exclusions", "fill exclusions", Saved(RAW_REFERENCE_EXCLUSIONS, Blank))
    BY <1>5 DEF OpenExclusions
  <2>4. StillNoted("open exclusions", "fill exclusions")
    BY <1>1, <2>3, StoredTrees, NotedWrite DEF Writing
  <2> QED
    BY <1>1, <2>2, <2>4 DEF StillNoted, AfterReports
<1>6. CASE FlushExclusions
  <2>1. PICK c \in Cuts(ExclusionRows) :
          Write("fill exclusions", "fill exclusions", Filled(RAW_REFERENCE_EXCLUSIONS, c))
    BY <1>6 DEF FlushExclusions
  <2>2. /\ step = "fill exclusions" /\ calm
        /\ tree' = Filled(RAW_REFERENCE_EXCLUSIONS, c)
    BY <2>1 DEF Write
  <2>3. /\ RAW_REFERENCE_EXCLUSIONS \in DOMAIN tree'
        /\ run.write => /\ SUPPLY_CHAIN_SCAN \in DOMAIN tree'
                        /\ tree'[SUPPLY_CHAIN_SCAN] = Report(ScanRows)
    BY <1>1, <2>2 DEF NInv, AfterScanReport, Filled, Saved
  <2> QED
    BY <1>1, <2>1, <2>3, StoredTrees, NotedWrite DEF StillNoted, Writing, AfterReports
<1>7. CASE FillExclusions
  <2>1. /\ step = "fill exclusions" /\ calm
        /\ tree' = Filled(RAW_REFERENCE_EXCLUSIONS, Report(ExclusionRows))
    BY <1>7 DEF FillExclusions, Write
  <2>2. /\ RAW_REFERENCE_EXCLUSIONS \in DOMAIN tree'
        /\ tree'[RAW_REFERENCE_EXCLUSIONS] = Report(ExclusionRows)
        /\ run.write => /\ SUPPLY_CHAIN_SCAN \in DOMAIN tree'
                        /\ tree'[SUPPLY_CHAIN_SCAN] = Report(ScanRows)
    BY <1>1, <2>1 DEF NInv, AfterScanReport, Filled, Saved
  <2>3. Write("fill exclusions", "judge",
              Filled(RAW_REFERENCE_EXCLUSIONS, Report(ExclusionRows)))
    BY <1>7 DEF FillExclusions
  <2>4. StillNoted("fill exclusions", "judge")
    BY <1>1, <2>3, StoredTrees, NotedWrite DEF Writing
  <2> QED
    BY <1>1, <2>2, <2>4 DEF StillNoted
<1> QED
  BY <1>2, <1>3, <1>4, <1>5, <1>6, <1>7 DEF WritesReport

LEMMA NotedStep == NInv /\ [Next]_vars => NInv'
<1> SUFFICES ASSUME NInv, [Next]_vars PROVE NInv'
  OBVIOUS
<1>1. Variables \subseteq DOMAIN run' /\ (step' # "idle" => verdict' = "none")
  BY DEF NInv, Next, vars, Start, Fresh, CheckSkills, CheckManifest, CheckInventory,
         CheckLinks, Scan, Advance, OpenScan, FlushScan, FillScan, OpenExclusions,
         FlushExclusions, FillExclusions, Write, Judge, Raise, Kill, Stop, Edit,
         Remove, Declare, Withdraw, Touch, Variables
<1>2. Noted'
  <2> USE DEF NInv, Noted, Concluded, AfterSkills, AfterInventory, AfterLinks,
              AfterScan, AfterScanReport, AfterReports, Writing
  <2>1. CASE UNCHANGED vars
    BY <2>1 DEF vars, ScanRows, ExclusionRows
  <2>2. CASE Start
    BY <2>2 DEF Start
  <2>3. CASE CheckSkills
    BY <2>3 DEF CheckSkills, Advance, Variables
  <2>4. CASE CheckManifest
    BY <2>4 DEF CheckManifest, Advance, Variables
  <2>5. CASE CheckInventory
    BY <2>5 DEF CheckInventory, Advance, Variables
  <2>6. CASE CheckLinks
    BY <2>6 DEF CheckLinks, Advance, Variables
  <2>7. CASE Scan
    BY <2>7 DEF Scan, Advance, Variables
  <2>8. CASE Raise
    BY <2>8 DEF Raise, Stop
  <2>9. CASE WritesReport
    BY <2>9, NotedReports
  <2>10. CASE Judge
    BY <2>10 DEF Judge, Stop, ScanRows, ExclusionRows
  <2>11. CASE Kill
    BY <2>11 DEF Kill, Stop
  <2>12. CASE Edit \/ Remove \/ Declare \/ Withdraw
    BY <2>12 DEF Edit, Remove, Declare, Withdraw, Touch
  <2> QED
    BY <2>1, <2>2, <2>3, <2>4, <2>5, <2>6, <2>7, <2>8, <2>9, <2>10, <2>11, <2>12
    DEF Next, WritesReport
<1> QED
  BY <1>1, <1>2 DEF NInv

\* What is noted and written at the end is all there is to report.
LEMMA NotedComplete == NInv => ReportsAreComplete
<1> SUFFICES ASSUME NInv, Concluded, calm, run.write PROVE ReportsAreComplete
  BY DEF ReportsAreComplete, Concluded
<1>0. /\ run.findings = findings(tree, actual(tree), active(tree))
      /\ Lasting(run.exclusions) = Lasting(exclusions(tree))
      /\ Reports \subseteq DOMAIN tree
      /\ tree[SUPPLY_CHAIN_SCAN] = Report(ScanRows)
      /\ tree[RAW_REFERENCE_EXCLUSIONS] = Report(ExclusionRows)
  BY DEF NInv, Noted, AfterSkills, AfterInventory, AfterScan, AfterLinks,
         AfterScanReport, AfterReports, Reports
<1>1. /\ run.findings = findings(tree, actual(tree), active(tree))
      /\ Lasting(run.exclusions) = Lasting(exclusions(tree))
      /\ tree[SUPPLY_CHAIN_SCAN].lines = {ScanRow(f) : f \in run.findings}
      /\ tree[RAW_REFERENCE_EXCLUSIONS].lines = {ExclusionRow(e) : e \in run.exclusions}
  BY <1>0 DEF Report, ScanRows, ExclusionRows
<1>9. Readable(tree, Reports)
  BY <1>0 DEF Readable, Reports, Report
<1>2. \A m : m \in Matching <=>
        \E p \in actual(tree) \cup active(tree) : \E l \in tree[p].lines :
          l.scan /\ m = <<p, l>>
  BY DEF Matching, actual, active, Raw
<1>3. \A f : f \in run.findings <=>
        \E p \in actual(tree) \cup active(tree) : \E l \in tree[p].lines :
          l.scan /\ f = <<p, classification(p, actual(tree)), l>>
  BY <1>1 DEF findings
<1>4. ASSUME NEW m \in Matching
      PROVE  \E row \in tree[SUPPLY_CHAIN_SCAN].lines : Quotes(row, m[1], m[2])
  <2>1. PICK p \in actual(tree) \cup active(tree) : \E l \in tree[p].lines :
               l.scan /\ m = <<p, l>>
    BY <1>2, <1>4
  <2>2. PICK l \in tree[p].lines : l.scan /\ m = <<p, l>>
    BY <2>1
  <2> DEFINE f == <<p, classification(p, actual(tree)), l>>
  <2>3. f \in run.findings
    BY <1>3, <2>2
  <2>4. Quotes(ScanRow(f), m[1], m[2])
    BY <2>2 DEF Quotes, ScanRow, Escaped, Row
  <2> QED
    BY <1>1, <2>3, <2>4
<1>5. ASSUME NEW row \in tree[SUPPLY_CHAIN_SCAN].lines
      PROVE  \E m \in Matching : Quotes(row, m[1], m[2])
  <2>1. PICK f \in run.findings : row = ScanRow(f)
    BY <1>1, <1>5
  <2>2. PICK p \in actual(tree) \cup active(tree) : \E l \in tree[p].lines :
               l.scan /\ f = <<p, classification(p, actual(tree)), l>>
    BY <1>3
  <2> PICK l \in tree[p].lines : l.scan /\ f = <<p, classification(p, actual(tree)), l>>
    BY <2>2
  <2>3. <<p, l>> \in Matching
    BY <1>2
  <2>4. Quotes(row, p, l)
    BY <2>1 DEF Quotes, ScanRow, Escaped, Row
  <2> QED
    BY <2>3, <2>4
<1>6. \A e : e \in exclusions(tree) <=>
        \E p \in {q \in DOMAIN tree : q.area = "vendor" /\ q.suffix = ".md"} :
          \E l \in tree[p].lines : \E d \in l.links :
            Dead(tree, d) /\ e = <<p, l.text, d>>
  BY DEF exclusions, DeadIn, Markdown, Raw
<1>7. ASSUME NEW p \in {q \in DOMAIN tree : q.area = "vendor" /\ q.suffix = ".md"},
             NEW l \in tree[p].lines,
             NEW d \in {k \in l.links : k.to \notin Reports /\ Dead(tree, k)}
      PROVE  \E row \in tree[RAW_REFERENCE_EXCLUSIONS].lines :
               row.text = <<p, l.text, d>>
  <2>1. <<p, l.text, d>> \in Lasting(exclusions(tree))
    BY <1>6 DEF Lasting
  <2>2. <<p, l.text, d>> \in run.exclusions
    BY <1>1, <2>1 DEF Lasting
  <2>3. ExclusionRow(<<p, l.text, d>>).text = <<p, l.text, d>>
    BY DEF ExclusionRow, Row
  <2> QED
    BY <1>1, <2>2, <2>3
<1>8. ASSUME NEW row \in tree[RAW_REFERENCE_EXCLUSIONS].lines,
             row.text[3].to \notin Reports
      PROVE  /\ row.text[1].area = "vendor"
             /\ row.text[3] \in LinksOf(tree[row.text[1]])
             /\ Dead(tree, row.text[3])
  <2>1. PICK e \in run.exclusions : row = ExclusionRow(e)
    BY <1>1, <1>8
  <2>2. row.text = e
    BY <2>1 DEF ExclusionRow, Row
  <2>3. e \in exclusions(tree)
    BY <1>1, <1>8, <2>2 DEF Lasting
  <2> QED
    BY <1>6, <2>2, <2>3 DEF LinksOf
<1> QED
  BY <1>4, <1>5, <1>7, <1>8, <1>9 DEF ReportsAreComplete

\* A run that comes to its end while nobody edits leaves reports of exactly
\* what is on disk (verify_skills.py 94-164).
THEOREM ReportsAreAlwaysComplete == Spec => []ReportsAreComplete
<1>1. Init => NInv
  BY DEF Init, NInv, Noted, Fresh, Variables, Concluded, AfterSkills, AfterInventory,
         AfterLinks, AfterScan, AfterScanReport, AfterReports, Writing
<1>2. Spec => []NInv
  BY <1>1, NotedStep, PTL DEF Spec
<1> QED
  BY <1>2, NotedComplete, PTL

-----------------------------------------------------------------------------
(* The types.                                                              *)

TInv == Variables \subseteq DOMAIN run /\ TypeOK

LEMMA TStep == TInv /\ [Next]_vars => TInv'
<1> SUFFICES ASSUME TInv, [Next]_vars PROVE TInv'
  OBVIOUS
<1> USE DEF TInv, TypeOK, Variables
<1>1. CASE UNCHANGED vars
  BY <1>1 DEF vars
<1>2. CASE Start
  BY <1>2 DEF Start, Fresh, Steps, Writing
<1>3. CASE CheckSkills
  BY <1>3 DEF CheckSkills, Advance, Steps, Writing, active, SkillsInOrder
<1>4. CASE CheckManifest
  BY <1>4 DEF CheckManifest, Advance, Steps, Writing
<1>5. CASE CheckInventory
  BY <1>5 DEF CheckInventory, Advance, Steps, Writing, actual
<1>6. CASE CheckLinks
  BY <1>6 DEF CheckLinks, Advance, Steps, Writing
<1>7. CASE Scan
  BY <1>7 DEF Scan, Advance, Steps, Writing
<1>8. CASE Raise
  BY <1>8 DEF Raise, Stop, Steps, Writing
<1>9. ASSUME NEW from \in Writing, NEW to \in Writing \cup {"judge"},
             NEW r \in Reports, NEW c, NEW t \in {Saved(r, c), Filled(r, c)},
             Write(from, to, t)
      PROVE  TInv'
  <2>1. DOMAIN tree' \subseteq Paths /\ \A p \in DOMAIN tree' \ Reports : tree'[p] \in Contents
    BY <1>9, CommittedAssumption DEF Write, Saved, Filled
  <2> QED
    BY <1>9, <2>1 DEF Write, Steps, Writing
<1>10. CASE WritesReport
  BY <1>9, <1>10 DEF WritesReport, OpenScan, FlushScan, FillScan, OpenExclusions,
                     FlushExclusions, FillExclusions, Writing, Reports
<1>11. CASE Judge
  BY <1>11 DEF Judge, Stop, Steps, Writing
<1>12. CASE Kill
  BY <1>12 DEF Kill, Stop, Steps, Writing
<1>13. ASSUME Touch PROVE edits' \in 0 .. MaxEdits
  BY <1>13, CommittedAssumption DEF Touch
<1>14. CASE Edit
  BY <1>13, <1>14 DEF Edit, Touch, Saved
<1>15. CASE Remove
  BY <1>13, <1>15 DEF Remove, Touch
<1>16. CASE Declare
  <2>1. declared(manifest') \subseteq Paths
    BY <1>16 DEF Declare, declared, Without
  <2> QED
    BY <1>13, <1>16, <2>1 DEF Declare, Touch
<1>17. CASE Withdraw
  <2>1. declared(manifest') \subseteq Paths
    BY <1>17 DEF Withdraw, declared, Without
  <2> QED
    BY <1>13, <1>17, <2>1 DEF Withdraw, Touch
<1> QED
  BY <1>1, <1>2, <1>3, <1>4, <1>5, <1>6, <1>7, <1>8, <1>10, <1>11, <1>12, <1>14,
     <1>15, <1>16, <1>17 DEF Next, WritesReport

\* The types hold; a report is written only by a run that was asked to.
THEOREM TypeCorrect == Spec => []TypeOK
<1>1. Init => TInv
  BY CommittedAssumption
  DEF Init, TInv, TypeOK, Variables, Fresh, Steps, Writing, declared
<1>2. Spec => []TInv
  BY <1>1, TStep, PTL DEF Spec
<1>3. TInv => TypeOK
  BY DEF TInv
<1> QED
  BY <1>2, <1>3, PTL
=============================================================================
