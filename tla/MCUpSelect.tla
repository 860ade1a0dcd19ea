----------------------------- MODULE MCUpSelect -----------------------------
(* An instance of UpSelect for TLC: three chunks, one planned for each of two
   access points and one for neither; the second access point is the last. *)
EXTENDS UpSelect, TLC

Stops == <<11, 0, 12>>
OneEach == [c \in Chunk |-> CASE c = 1 -> 11 [] c = 2 -> 12 [] OTHER -> None]

Cloud == [node |-> "cloud", type |-> "CLOUD"]
Site(ds, words) == [node |-> "site", type |-> "DATA", lines |-> ds, words |-> words]
Stop(aps, sites) == [aps |-> aps, sites |-> sites]
Planned(c, a) == [chunk |-> c, ap |-> a]
File(number, ls) == [number |-> number, lines |-> ls]
Path == File(3, <<Stop(<<11>>, <<>>), Stop(<<>>, <<5, 6>>), Stop(<<12>>, <<>>)>>)
PlanFile == File(2, <<Planned(1, 11), Planned(2, 12)>>)

MdcOn(path, policy_, words, plan, specs_) ==
  [node |-> "mdc", type |-> "MDC", path |-> path, policy |-> policy_,
   words |-> words, plan |-> plan, specs |-> specs_]
Mdc(policy_, words, plan, specs_) == MdcOn(Path, policy_, words, plan, specs_)

Line(id, size, deadline, priority) ==
  [id |-> id, size |-> size, deadline |-> deadline, priority |-> priority]
Some == {Line(1, 2, 2, 4), Line(2, 2, 5, 6), Line(3, 1, 1, 10), Line(3, 0, 1, 10)}

Spec11 == [ap |-> 11, rate |-> 1, comp |-> 3]
Known == {Spec11, [ap |-> 12, rate |-> 2, comp |-> 4]}
Half == {Spec11, [ap |-> 12, rate |-> 0, comp |-> 4]}

Estimating == {Mdc(p, 4, PlanFile, S) : p \in {"TIMELINE", "ADAPTIVE_GP"}, S \in {Known, Half}}
Others == {Mdc("CONTROL_TH", 4, PlanFile, Known), Mdc("STRICT_PLAN", 3, PlanFile, {}),
           Mdc("EVERYTHING", 3, NoFile, {}), Mdc("", 2, NoFile, {})}
WrongPaths == {File(4, Path.lines), File(1, <<Stop(<<11, 12>>, <<>>)>>),
               File(1, <<Stop(<<11>>, <<5>>)>>), File(1, <<Stop(<<>>, <<5, 5>>)>>)}
WrongPlans == {File(3, PlanFile.lines), File(2, <<Planned(1, 11), Planned(1, 12)>>)}
Wrong == {Mdc("EVERYTHING", 3, PlanFile, {}), Mdc("TIMELINE", 4, NoFile, Known),
          Mdc("", 1, PlanFile, {}), Site(Some, 2), [node |-> "x", type |-> "?"]}
           \cup {MdcOn(p, "STRICT_PLAN", 3, PlanFile, {}) : p \in WrongPaths}
           \cup {Mdc("STRICT_PLAN", 3, p, {}) : p \in WrongPlans}

Files == {<<Cloud, Site(Some, 1), m>> : m \in Estimating \cup Others \cup Wrong}
=============================================================================
