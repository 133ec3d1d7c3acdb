------------------------------ MODULE MCMotion ------------------------------
(* Instances of Motion. *)
EXTENDS Motion

Ref(kind, family) == Place(kind, family, 0)
Trajectory(family, times) ==
  [kind |-> "trajectory", family |-> family, slot |-> 0, parts |-> << >>, times |-> times, loop |-> -1]
View(family, loop) ==
  [kind |-> "plain", family |-> family, slot |-> 0, parts |-> <<Ref("trajectory", family)>>,
   times |-> << >>, loop |-> loop]
Combined(kind, family, slot, first, second) ==
  [kind |-> kind, family |-> family, slot |-> slot, times |-> << >>, loop |-> -1,
   parts |-> <<Ref(first, family), Ref(second, family), Ref("plain", "envelope")>>]
Run(family, kind) == [kind |-> "execute", family |-> family, view |-> Ref(kind, family)]

\* Waypoints out of order, at equal times, too many and none; loops of no time;
\* views of views, of themselves and of an unknown kind.
EveryKind == {
  Trajectory("base", <<1, 0, 1>>), Trajectory("base", << >>), Trajectory("base", <<0, 1, 2, 3>>),
  View("base", -1), View("base", 1), View("base", 0),
  Combined("modulated", "base", 0, "modulated", "plain"), Combined("mixed", "base", 0, "plain", "modulated"),
  Combined("mixed", "base", 0, "plain", "mixed"), Combined("mixed", "base", 1, "plain", "plain"),
  Run("base", "plain"), Run("base", "mixed"), Run("base", "invalid"),
  Trajectory("envelope", <<0>>), View("envelope", -1),
  Trajectory("head", <<1>>), View("head", -1), Run("head", "modulated"),
  Combined("modulated", "head", 0, "plain", "plain"), Combined("mixed", "head", 0, "plain", "invalid") }

\* A start from the empty store, and one from the store that nine requests left:
\* a trajectory with a view for the base, the head and the envelope, and views
\* that combine them, but no mixed view of the base.
Object(parts, times) == [ok |-> TRUE, parts |-> parts, times |-> times, loop |-> -1]
Prepared ==
  [p \in Places |->
    CASE p.kind = "trajectory" -> Object(<< >>, <<0, 1>>)
      [] p.kind = "plain" -> Object(<<Ref("trajectory", p.family)>>, << >>)
      [] <<p.kind, p.family>> \in {<<"modulated", "base">>, <<"modulated", "head">>, <<"mixed", "head">>} ->
           Object(Combined(p.kind, p.family, 0, "plain", "plain").parts, << >>)
      [] OTHER -> Unavailable]

MCInit ==
  /\ store \in {[p \in Places |-> Unavailable], Prepared}
  /\ InitButStore

MCSpec == MCInit /\ [][Next]_vars /\ Fairness
=============================================================================
