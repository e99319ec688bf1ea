---------------------------- MODULE SkillReports ----------------------------
(***************************************************************************)
(* .agents/scripts/verify_skills.py: the check of the agents' directory    *)
(* and, with --write-reports, the two reports it leaves in that directory. *)
(* A run reads the files step by step while people edit them, may be       *)
(* killed between any two steps, and the next run reads, among the other   *)
(* Markdown files, the reports that this one wrote.                        *)
(*                                                                         *)
(* A file is at [area, dir, name, suffix]: below vendor/, in a directory   *)
(* of skills/, or at the "top", the rest of the tree.  What it holds is a  *)
(* set of lines, each with a text, which says where it is too, whether     *)
(* SCAN matches it, the links in it and how many fence marks, that it can  *)
(* be decoded as UTF-8 or not, and whether the front matter names and      *)
(* describes the skill.  A link is [to, marks]: it leads to a path of the  *)
(* tree, where there may be a file or not, or "outside", to a URL, a       *)
(* directory or a file elsewhere, and is then not dead; its target may be  *)
(* spelt with fence marks.  The names of files have no markup in them.     *)
(***************************************************************************)
EXTENDS Naturals, Sequences, FiniteSets

CONSTANTS
  CORE, VENDORS,  \* the names of the skills
  Paths,          \* where a file may be
  Contents,       \* what an editor may write in one
  Committed,      \* the tree and
  Pins,           \* the manifest as they are committed
  SUPPLY_CHAIN_SCAN, RAW_REFERENCE_EXCLUSIONS,  \* the paths of the reports
  MaxEdits

Reports == {SUPPLY_CHAIN_SCAN, RAW_REFERENCE_EXCLUSIONS}

\* The reports lie at the top, where nothing but their lines is looked at;
\* as committed they can be read and hold neither links nor fence marks.
ASSUME ReportsAssumption ==
  /\ SUPPLY_CHAIN_SCAN # RAW_REFERENCE_EXCLUSIONS
  /\ \A r \in Reports : r.area = "top" /\ r.name # "SKILL.md"
  /\ \A r \in Reports \cap DOMAIN Committed :
       /\ Committed[r].utf8
       /\ \A l \in Committed[r].lines : l.links = {} /\ l.marks = 0

\* What is committed, and what people write, is what the constants allow.
ASSUME CommittedAssumption ==
  /\ Reports \cup DOMAIN Committed \subseteq Paths /\ MaxEdits \in Nat
  /\ \A p \in DOMAIN Committed \ Reports : Committed[p] \in Contents
  /\ \A entry \in Pins : entry.local_path \in Paths

VARIABLES
  tree,      \* the files there are, and what each holds
  manifest,  \* the entries of VENDOR_MANIFEST.json
  step,      \* where the run is
  run,       \* its local variables
  verdict,   \* what the last run came to
  calm,      \* nobody has edited anything since that run began
  edits      \* how many edits there have been

vars == <<tree, manifest, step, run, verdict, calm, edits>>

-----------------------------------------------------------------------------
(* What the parts of the check ask of a tree and of its manifest.          *)

expected == CORE \cup {"vendor-" \o name : name \in VENDORS}

active(t) == {p \in DOMAIN t : p.area = "skills" /\ p.name = "SKILL.md"}

SkillsInOrder(t) ==
  /\ {p.dir : p \in active(t)} = expected
  /\ \A p \in DOMAIN t : p.name = "SKILL.md" => p \in active(t)
  /\ \A p \in active(t) : t[p].named /\ t[p].described

declared(m) == {entry.local_path : entry \in m}

Inert(p) == /\ p.name \notin {"SKILL.md", "AGENTS.md", "openai.yaml"}
            /\ p.suffix \in {".md", ".txt", ""}

EntryInOrder(t, entry) ==
  /\ entry.pinned
  /\ entry.local_path \in DOMAIN t
  /\ t[entry.local_path] = entry.sha256
  /\ t[entry.local_path] = entry.git_blob_sha
  /\ Inert(entry.local_path)

ManifestInOrder(t, m) == \A entry \in m : EntryInOrder(t, entry)

Raw(p) == p.area = "vendor"
actual(t) == {p \in DOMAIN t : Raw(p)}

Markdown(t) == {p \in DOMAIN t : p.suffix = ".md"}

Dead(t, link) == link.to.area # "outside" /\ link.to \notin DOMAIN t

Odd(c) == {l \in c.lines : l.marks % 2 = 1}
Unbalanced(c) == Cardinality(Odd(c)) % 2 = 1

LinksOf(c) == UNION {l.links : l \in c.lines}

LinksInOrder(t) ==
  \A p \in Markdown(t) :
     Raw(p) \/ /\ ~Unbalanced(t[p])
               /\ \A link \in LinksOf(t[p]) : ~Dead(t, link)

DeadIn(t, p) ==
  UNION {{<<p, l.text, d>> : d \in {k \in l.links : Dead(t, k)}} : l \in t[p].lines}

exclusions(t) == UNION {DeadIn(t, p) : p \in {q \in Markdown(t) : Raw(q)}}

classification(p, vendored) ==
  IF p \in vendored THEN "HISTORICAL_REFERENCE_DISABLED"
                    ELSE "LOCAL_POLICY_OR_SCOPED_CONTEXT"

\* Defect: only the vendored files are scanned.
findings_of_vendors(t, vendored, skills) ==
  UNION {{<<p, classification(p, vendored), l>> : l \in {k \in t[p].lines : k.scan}}
           : p \in vendored}

findings(t, vendored, skills) ==
  UNION {{<<p, classification(p, vendored), l>> : l \in {k \in t[p].lines : k.scan}}
           : p \in vendored \cup skills}

\* read_text raises where there is no file or no UTF-8.
Readable(t, files) == \A p \in files : p \in DOMAIN t /\ t[p].utf8

\* The check as a whole, of a tree that nobody touches meanwhile.
InOrder(t, m) == /\ Readable(t, active(t) \cup actual(t) \cup Markdown(t))
                 /\ SkillsInOrder(t)
                 /\ ManifestInOrder(t, m)
                 /\ actual(t) = declared(m)
                 /\ LinksInOrder(t)

-----------------------------------------------------------------------------
(* The rows of the reports.  A line is quoted with its brackets and back-  *)
(* ticks replaced by character references; the target of a link stands as  *)
(* it is spelt, which is a link to nobody, with the fence marks in it.     *)

Row(text, scan, marks) ==
  [text |-> text, scan |-> scan, links |-> {}, marks |-> marks]

\* Defect: the line is quoted as it is.
EscapedNot(l, text) == [l EXCEPT !.text = text]

Escaped(l, text) == Row(text, l.scan, 0)

ScanRow(f) == Escaped(f[3], <<f[1], f[2], f[3].text>>)

ExclusionRow(e) == Row(e, FALSE, e[3].marks)

Report(rows) ==
  [named |-> FALSE, described |-> FALSE, utf8 |-> TRUE, lines |-> rows]
Blank == Report({})

\* What there is of a report that is not written to its end: some rows, or
\* some and a part of another, with only some of its fence marks and perhaps
\* with only some of the bytes of its last character.
CutOf(row) == {[row EXCEPT !.marks = n] : n \in 0 .. row.marks}

CutIn(row, rows) == {some \cup {cut} : some \in SUBSET (rows \ {row}), cut \in CutOf(row)}

Cuts(rows) ==
  {Report(some) : some \in SUBSET rows} \cup
  {[Report(torn) EXCEPT !.utf8 = whole] :
     torn \in UNION {CutIn(row, rows) : row \in rows}, whole \in BOOLEAN}

-----------------------------------------------------------------------------
(* A run.                                                                  *)

Saved(p, c) == [q \in DOMAIN tree \cup {p} |-> IF q = p THEN c ELSE tree[q]]

Fresh(write) == [write |-> write, ok |-> TRUE, active |-> {}, declared |-> {},
                 actual |-> {}, exclusions |-> {}, findings |-> {}]

Init == /\ tree = Committed
        /\ manifest = Pins
        /\ step = "idle"
        /\ run = Fresh(FALSE)
        /\ verdict = "none"
        /\ calm = TRUE
        /\ edits = 0

Start == \E write \in BOOLEAN :
  /\ step = "idle"
  /\ step' = "skills"
  /\ run' = Fresh(write)
  /\ verdict' = "none"
  /\ calm' = TRUE
  /\ UNCHANGED <<tree, manifest, edits>>

\* From one step to the next, having read and written no file but the run's.
Advance(from, to) == /\ step = from
                     /\ step' = to
                     /\ UNCHANGED <<tree, manifest, verdict, calm, edits>>

CheckSkills == /\ Readable(tree, active(tree))
               /\ Advance("skills", "manifest")
               /\ run' = [run EXCEPT !.active = active(tree),
                                     !.ok = SkillsInOrder(tree)]

CheckManifest == /\ Advance("manifest", "inventory")
                 /\ run' = [run EXCEPT !.declared = declared(manifest),
                                       !.ok = @ /\ ManifestInOrder(tree, manifest)]

\* Defect: the manifest is not compared with the disk.
CheckInventoryNot == /\ Advance("inventory", "links")
                     /\ run' = [run EXCEPT !.actual = actual(tree)]

CheckInventory == /\ Advance("inventory", "links")
                  /\ run' = [run EXCEPT !.actual = actual(tree),
                                        !.ok = @ /\ actual(tree) = run.declared]

CheckLinks == /\ Readable(tree, Markdown(tree))
              /\ Advance("links", "scan")
              /\ run' = [run EXCEPT !.exclusions = exclusions(tree),
                                    !.ok = @ /\ LinksInOrder(tree)]

Listed == run.actual \cup run.active

\* Defect: the reports are written whether they were asked for or not.
ScanAlwaysReporting ==
  /\ Readable(tree, Listed)
  /\ Advance("scan", "open scan")
  /\ run' = [run EXCEPT !.findings = findings(tree, run.actual, run.active)]

Scan == /\ Readable(tree, Listed)
        /\ Advance("scan", IF run.write THEN "open scan" ELSE "judge")
        /\ run' = [run EXCEPT !.findings = findings(tree, run.actual, run.active)]

\* write_text opens a report, which empties it or makes it, and then writes.
Write(from, to, t) == /\ step = from
                      /\ step' = to
                      /\ tree' = t
                      /\ UNCHANGED <<manifest, run, verdict, calm, edits>>

\* A report that is removed once it is open is lost with all that is written.
Filled(p, c) == IF p \in DOMAIN tree THEN Saved(p, c) ELSE tree

ScanRows == {ScanRow(f) : f \in run.findings}
ExclusionRows == {ExclusionRow(e) : e \in run.exclusions}

OpenScan == Write("open scan", "fill scan", Saved(SUPPLY_CHAIN_SCAN, Blank))
FlushScan == \E c \in Cuts(ScanRows) :
  Write("fill scan", "fill scan", Filled(SUPPLY_CHAIN_SCAN, c))
FillScan == Write("fill scan", "open exclusions",
                  Filled(SUPPLY_CHAIN_SCAN, Report(ScanRows)))

OpenExclusions == Write("open exclusions", "fill exclusions",
                        Saved(RAW_REFERENCE_EXCLUSIONS, Blank))
FlushExclusions == \E c \in Cuts(ExclusionRows) :
  Write("fill exclusions", "fill exclusions", Filled(RAW_REFERENCE_EXCLUSIONS, c))
FillExclusions == Write("fill exclusions", "judge",
                        Filled(RAW_REFERENCE_EXCLUSIONS, Report(ExclusionRows)))

Stop(how) == /\ step' = "idle"
             /\ verdict' = how
             /\ UNCHANGED <<tree, manifest, run, calm, edits>>

Judge == /\ step = "judge"
         /\ Stop(IF run.ok THEN "PASS" ELSE "FAIL")

\* The files that the run reads next, and the steps of writing.
Reads == CASE step = "skills" -> active(tree)
           [] step = "links" -> Markdown(tree)
           [] step = "scan" -> Listed
           [] OTHER -> {}

Writing == {"open scan", "fill scan", "open exclusions", "fill exclusions"}

\* A file cannot be read, or the disk is full.
Raise == /\ step \in Writing \/ ~Readable(tree, Reads)
         /\ Stop("raised")

Kill == /\ step # "idle"
        /\ Stop("killed")

-----------------------------------------------------------------------------
(* The people who edit the tree.  Nobody writes the reports by hand.       *)

Touch == /\ edits < MaxEdits
         /\ edits' = edits + 1
         /\ calm' = FALSE
         /\ UNCHANGED <<step, run, verdict>>

Edit == \E p \in Paths \ Reports, c \in Contents :
  /\ Touch
  /\ tree' = Saved(p, c)
  /\ UNCHANGED manifest

Remove == \E p \in DOMAIN tree :
  /\ Touch
  /\ tree' = [q \in DOMAIN tree \ {p} |-> tree[q]]
  /\ UNCHANGED manifest

Without(p) == {entry \in manifest : entry.local_path # p}

\* The reviewed import of what is on disk, or one that is not pinned.
Declare == \E p \in DOMAIN tree \ Reports, pinned \in BOOLEAN :
  /\ Touch
  /\ manifest' = Without(p) \cup
       {[local_path |-> p, sha256 |-> tree[p], git_blob_sha |-> tree[p], pinned |-> pinned]}
  /\ UNCHANGED tree

Withdraw == \E p \in declared(manifest) :
  /\ Touch
  /\ manifest' = Without(p)
  /\ UNCHANGED tree

Next == \/ Start \/ CheckSkills \/ CheckManifest \/ CheckInventory \/ CheckLinks
        \/ Scan \/ OpenScan \/ FlushScan \/ FillScan
        \/ OpenExclusions \/ FlushExclusions \/ FillExclusions
        \/ Judge \/ Raise \/ Kill
        \/ Edit \/ Remove \/ Declare \/ Withdraw

Spec == Init /\ [][Next]_vars

-----------------------------------------------------------------------------
(* Properties.                                                             *)

Steps == {"idle", "skills", "manifest", "inventory", "links", "scan", "judge"} \cup Writing

\* Every variable holds what the script and the disk can hold, and a report
\* is written only by a run that was asked to (119).
TypeOK ==
  /\ DOMAIN tree \subseteq Paths
  /\ \A p \in DOMAIN tree \ Reports : tree[p] \in Contents
  /\ declared(manifest) \subseteq Paths
  /\ step \in Steps
  /\ step \in Writing => run.write
  /\ run.write \in BOOLEAN /\ run.ok \in BOOLEAN
  /\ run.active \subseteq Paths /\ run.actual \subseteq Paths
  /\ verdict \in {"none", "PASS", "FAIL", "raised", "killed"}
  /\ calm \in BOOLEAN
  /\ edits \in 0 .. MaxEdits

\* The tree as it would be had no report ever been written.
Unreported == [p \in DOMAIN tree |-> IF p \in Reports THEN Blank ELSE tree[p]]

\* The exclusion report has a target that is spelt with fence marks.
Marked == /\ RAW_REFERENCE_EXCLUSIONS \in DOMAIN tree
          /\ \E row \in tree[RAW_REFERENCE_EXCLUSIONS].lines : row.text[3].marks # 0

\* Whatever reports earlier runs have left, complete, stale or cut short, they
\* are what the next run fails on in two cases only: a report was cut within
\* a character, or the target of a vendored link has fence marks, which are
\* not escaped as those of the quoted lines are (verify_skills.py 95-109
\* reads the reports, 119-164 write them).
NoOtherHarm ==
  InOrder(Unreported, manifest) =>
    \/ InOrder(tree, manifest)
    \/ ~Readable(tree, Reports \cap DOMAIN tree)
    \/ Marked

\* A run that passes while nobody edits has shown that no text of a vendor
\* is active: each vendored file is inert by its name and carries the bytes
\* of an entry of the manifest that is pinned, and the only SKILL.md files
\* are those of the expected skills (52-93).
PassMeansInactive ==
  verdict = "PASS" /\ calm =>
    \A p \in DOMAIN tree :
      /\ p.area = "vendor" =>
           /\ p.name \notin {"SKILL.md", "AGENTS.md", "openai.yaml"}
           /\ p.suffix \in {".md", ".txt", ""}
           /\ \E entry \in manifest : /\ entry.local_path = p
                                      /\ entry.pinned
                                      /\ entry.sha256 = tree[p]
      /\ p.name = "SKILL.md" => p.area = "skills" /\ p.dir \in expected

\* The texts that SUPPLY_CHAIN_SCAN.md must quote, with their files.
Matching ==
  UNION {{<<p, l>> : l \in {k \in tree[p].lines : k.scan}}
           : p \in {q \in DOMAIN tree : \/ q.area = "vendor"
                                        \/ q.area = "skills" /\ q.name = "SKILL.md"}}

\* The report's rows for a line of a file.
Quotes(row, p, l) == row.text[1] = p /\ row.text[3] = l.text

\* A run with --write-reports that comes to its end while nobody edits leaves
\* reports that can be read, of exactly what is on disk, whether it passes or
\* fails: each matching line of a vendored file or wrapper and no other, each
\* dead link of a vendored page and no other (94-164), but for a link to a
\* report itself, which may have been missing until the run wrote it.
ReportsAreComplete ==
  verdict \in {"PASS", "FAIL"} /\ calm /\ run.write =>
    /\ Readable(tree, Reports)
    /\ \A m \in Matching :
         \E row \in tree[SUPPLY_CHAIN_SCAN].lines : Quotes(row, m[1], m[2])
    /\ \A row \in tree[SUPPLY_CHAIN_SCAN].lines :
         \E m \in Matching : Quotes(row, m[1], m[2])
    /\ \A p \in {q \in DOMAIN tree : q.area = "vendor" /\ q.suffix = ".md"} :
         \A l \in tree[p].lines :
           \A d \in {k \in l.links : k.to \notin Reports /\ Dead(tree, k)} :
             \E row \in tree[RAW_REFERENCE_EXCLUSIONS].lines :
               row.text = <<p, l.text, d>>
    /\ \A row \in tree[RAW_REFERENCE_EXCLUSIONS].lines :
         \/ row.text[3].to \in Reports
         \/ /\ row.text[1].area = "vendor"
            /\ row.text[3] \in LinksOf(tree[row.text[1]])
            /\ Dead(tree, row.text[3])
=============================================================================
