--------------------------- MODULE MCGeoRecovery ---------------------------
(* The geo that answers comes last in the provider's list.  In "Apart" it  *)
(* has an operator of its own, in "Shared" that of the first geo, which is *)
(* what its operator is called in the countries of the project.            *)
EXTENDS GeoRecovery

CONSTANTS dead, worse, good, kcell, tele, mts

Apart  == <<[geo |-> dead, op |-> kcell], [geo |-> good, op |-> mts],
            [geo |-> good, op |-> tele]>>
Shared == <<[geo |-> dead, op |-> kcell], [geo |-> worse, op |-> tele],
            [geo |-> good, op |-> kcell]>>
AtDead == [w \in Worker |-> dead]
AtHome == [w \in Worker |-> IF w = CHOOSE v \in Worker : TRUE THEN dead ELSE good]
=============================================================================
