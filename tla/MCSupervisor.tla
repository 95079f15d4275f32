--------------------------- MODULE MCSupervisor ---------------------------
(***************************************************************************)
(* Instances of Supervisor for TLC.                                        *)
(***************************************************************************)
EXTENDS Supervisor, TLC

Source(id, on) == [id |-> id, on |-> on]

\* One source, two sources, and the first one disabled.
ThreeConfigs ==
    { <<Source("x", TRUE)>>,
      <<Source("x", TRUE), Source("y", TRUE)>>,
      <<Source("y", TRUE), Source("x", FALSE)>> }

\* One enabled source: kept, replaced by the other one, moved in the list.
MovingConfigs ==
    { <<Source("x", TRUE)>>,
      <<Source("y", FALSE), Source("x", TRUE)>>,
      <<Source("x", FALSE), Source("y", TRUE)>> }

\* No callback is special.
CallbackSymmetry == Permutations(Callbacks)

=============================================================================
