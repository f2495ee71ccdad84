--------------------------- MODULE MCPrefixSession ---------------------------
(***************************************************************************)
(* PrefixSession with two settings: RetinaMode, which follows the config   *)
(* and is stamped (the DPI behaves the same way), and EmulateModeset,      *)
(* which every launch wants on.                                            *)
(***************************************************************************)
EXTENDS PrefixSession, TLC

TwoSettings == {"RetinaMode", "EmulateModeset"}
RetinaOnly == {"RetinaMode"}
OnAndOff == {[s \in TwoSettings |-> IF s = "RetinaMode" THEN v ELSE "Y"] : v \in {"Y", "N"}}

(* An earlier launch wanted retina mode on, which takes in all the others: *)
(* a launch here may want it on or off.                                    *)
Set(retina, modeset) == [s \in TwoSettings |-> IF s = "RetinaMode" THEN retina ELSE modeset]
RetinaOn == [mode |-> [s \in RetinaOnly |-> "Y"], after |-> 0]
Left(file, note, vouch) ==
  [reg |-> file, stamp |-> note, up |-> FALSE, boot |-> Blank, vouched |-> vouch]
Up(past, boot) == [past EXCEPT !.up = TRUE, !.boot = boot]

(* No launcher has been here.                                              *)
New == {Left(file, NoStamp, FALSE) : file \in {NoFile} \cup Registry}

(* One has, and died between its stamp and user.reg, or not, and was       *)
(* followed by a session that changed the setting no stamp records.        *)
Known == {Left(Set("N", "Y"), RetinaOn, FALSE), Left(Set("Y", "N"), RetinaOn, TRUE),
          Left(Set("Y", "Y"), RetinaOn, TRUE)}

(* A session is up, of a launch, or of a terminal since; a user may have   *)
(* changed either setting in it.                                           *)
Running ==
  {Up(Left(Set("N", "Y"), NoStamp, FALSE), Set("N", "Y")),
   Up(Left(Set("N", "Y"), RetinaOn, FALSE), Set("N", "Y")),
   Up(Left(Set("N", "Y"), RetinaOn, FALSE), Set("Y", "Y"))}
  \cup {Up(Left(Set("Y", after), RetinaOn, TRUE), Set("Y", before)) :
          after \in {"Y", "N"}, before \in {"Y", "N"}}

NoSessionUp == New \cup Known
AllPasts == NoSessionUp \cup Running

Symmetry == Permutations(Launchers)
==============================================================================
