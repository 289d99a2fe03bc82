----------------------------- MODULE MCContent ------------------------------
(* One space, two contributions, two prepared changes, and everything else *)
(* once.  A behaviour may move the parts of the state in the combinations  *)
(* of Together.                                                            *)
EXTENDS SpaceContent, TLC

CONSTANTS a1, good, bad, huge, s1, c1, c2, t1, r1, x1, x2, p1, p2, owner, guest, steward,
    reader, g1, l1

\* Which parts of the state a behaviour has moved away from how they start.
Moved(part) ==
    CASE part = "files"   -> \E a \in Artifacts : upload[a] # "none"
      [] part = "space"   -> \E s \in Spaces :
                                \/ status[s] \in {"frozen", "archived"}
                                \/ access[s].visibility = "restricted"
                                \/ access[s].policy # p1
      [] part = "said"    -> \E c \in Contributions, kind \in {"withdraw", "supersede"} :
                                <<c, kind>> \in disposed
      [] part = "changes" -> \E x \in Changes : change[x].state # "none"
      [] part = "rivals"  -> \A x \in Changes : change[x].state # "none"
      [] part = "links"   -> \/ \E r \in Relations : relation[r] # Nowhere
                             \/ \E c \in Contributions : reaction[c] # "none"
      [] part = "members" -> \E s \in Spaces, p \in Subjects :
                                /\ member[s][p] # NoMember
                                /\ p = Owner => \/ member[s][p].state # "active"
                                                \/ member[s][p].role # Steward
      [] part = "grants"  -> \E g \in Grants : grant[g] # Nowhere
      [] part = "lenses"  -> \E l \in Lenses : lens[l] # Nowhere
      [] part = "pages"   -> pending /\ job.op \in {"none", "down", "start"}

Parts == {"files", "space", "said", "changes", "rivals", "links", "members", "grants",
          "lenses", "pages"}

\* What is explored together; contributions, redactions and crashes go with
\* each, a compaction that fails or is cut short with the files.
Together == {{"files", "pages"}, {"changes", "space"}, {"changes", "said"}, {"changes", "rivals"},
             {"said", "space"}, {"links", "space"}, {"members"}, {"grants", "space"},
             {"lenses", "space"}}

\* Two of either are alike.
Twins == Permutations(Contributions) \union Permutations(Changes)

InOnePart == \E parts \in Together : \A part \in Parts \ parts : ~Moved(part)
==============================================================================
