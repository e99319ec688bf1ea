--------------------------- MODULE MCSkillReports ---------------------------
(* A tree of one wrapper, one vendored page and a page that links to the   *)
(* scan report; a nested SKILL.md, a vendored script and a second vendored *)
(* page may be added.                                                      *)
EXTENDS SkillReports

At(area, dir, name, suffix) ==
  [area |-> area, dir |-> dir, name |-> name, suffix |-> suffix]

Scanned == At("top", "", "SUPPLY_CHAIN_SCAN.md", ".md")
Excluded == At("top", "", "RAW_REFERENCE_EXCLUSIONS.md", ".md")
Wrapper == At("skills", "vendor-fastapi", "SKILL.md", ".md")
Upstream == At("vendor", "fastapi", "UPSTREAM_SKILL.md", ".md")
License == At("vendor", "fastapi", "LICENSE", "")
Script == At("vendor", "fastapi", "setup.py", ".py")
Nested == At("top", "notes", "SKILL.md", ".md")
Audit == At("top", "", "THIRD_PARTY_AUDIT.md", ".md")

\* What links lead to and no editor writes.
Gone == At("vendor", "fastapi", "gone.md", ".md")
Url == At("outside", "", "https", "")

MCPaths == {Scanned, Excluded, Wrapper, Upstream, License, Script, Nested, Audit}

Line(text, scan, links, marks) ==
  [text |-> <<text>>, scan |-> scan, links |-> links, marks |-> marks]

Link(to) == [to |-> to, marks |-> 0]

Says(named, lines) ==
  [named |-> named, described |-> named, utf8 |-> TRUE, lines |-> lines]

\* A skill whose line names a download and links to the page it wraps.
Skill == Says(TRUE, {Line("download", TRUE, {Link(Upstream)}, 0)})
\* The skill as reviewed, with one more such line.
Reviewed == Says(TRUE, Skill.lines \cup {Line("main", TRUE, {}, 0)})
\* A page with a dead link, and a line of a shell command.
Page == Says(FALSE, {Line("rest", FALSE, {Link(Gone), Link(Url)}, 0),
                     Line("curl", TRUE, {}, 1)})
\* The page with fence marks around the line, and in the target of a link.
Fenced == Says(FALSE, Page.lines \cup
                        {Line("fence", FALSE, {[to |-> Gone, marks |-> 1]}, 1)})
Summary == Says(FALSE, {Line("scan", FALSE, {Link(Scanned)}, 0)})
Encoded == [Says(FALSE, {}) EXCEPT !.utf8 = FALSE]

MCContents == {Skill, Reviewed, Page, Fenced, Summary, Encoded}

Written == [p \in {Wrapper, Upstream, Audit} |->
              CASE p = Wrapper -> Skill [] p = Upstream -> Page [] p = Audit -> Summary]

\* The reports as committed are empty: the first run to write them has all
\* their rows to write.
MCCommitted == [p \in Reports \cup DOMAIN Written |->
                  IF p \in Reports THEN Blank ELSE Written[p]]

MCPins == {[local_path |-> Upstream, sha256 |-> Page, git_blob_sha |-> Page, pinned |-> TRUE]}
=============================================================================
