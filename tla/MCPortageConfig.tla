--------------------------- MODULE MCPortageConfig --------------------------
(***************************************************************************)
(* TLC instances of the modules about /etc/portage: the fragments that     *)
(* several processes edit (UserConfig), repos.conf (ReposConf) and the     *)
(* masks (PackageMask).  A behaviour runs the commands of one of the three,*)
(* which have no code in common.                                           *)
(*                                                                         *)
(* The fragments are 10-old, g2.conf and zz-local, empty or with atoms in  *)
(* all of them.  repos.conf has two repositories, enabled and disabled by  *)
(* the command or by hand, together, apart, in two sections or not at all. *)
(* The mask files have blocks with and without a blank line between, a     *)
(* comment without an author, and none of the atoms or both.               *)
(***************************************************************************)
EXTENDS UserConfig, ReposConf, PackageMask, TLC

CONSTANTS p, q

VARIABLE edits    \* what the commands of this behaviour edit

ThreeFragments == <<"10-old", "g2.conf", "zz-local">>
EmptyOrSpread == {<<<<>>, <<>>, <<>>>>, <<<<"a">>, <<"b">>, <<"b", "a">>>>}
AnyProcess == Permutations(Processes)

TwoFiles == <<"foo.conf", "gentoo.conf">>
OwnFiles == [foo |-> "foo.conf", gentoo |-> "gentoo.conf"]
Text(hash) == [hash |-> hash, kind |-> "text", name |-> "text", value |-> ""]
Gentoo == <<Text(1), Header("gentoo", 0), Setting("location", "/a", 0), Text(1), Setting("priority", "/b", 1)>>
FooOff == <<Header("foo", 1), Setting("location", "/b", 1), Text(2)>>
FooByHand == <<Header("foo", 1), Setting("location", "/b", 0)>>
FooOn == <<Header("foo", 0), Setting("location", "/b", 0)>>
SomeConfs ==
    {<<>>, "foo.conf" :> Gentoo \o FooOff, "foo.conf" :> Gentoo \o FooByHand,
     "foo.conf" :> FooOff \o Gentoo,
     "foo.conf" :> FooOn @@ "gentoo.conf" :> Gentoo, "gentoo.conf" :> FooOff \o Gentoo \o FooOn}

MaskDir == <<"mask/a.conf", "mask/g2.conf">>
UnmaskOne == <<"unmask">>
Masks ==
    "mask/a.conf" :> <<Reason(<<"old">>), Author("ann"), Reason(<<"dead">>), Atom("a"), Author("ben"), Atom("b"),
                        BlankLine, Author("cid"), Reason(<<"late">>), Author("dan"), Atom("b")>>
        @@ "unmask" :> <<Author("ann"), Atom("a")>>
        @@ "repo" :> <<Author("ann"), Reason(<<"dead">>), Reason(<<"code">>), Atom("a"), Atom("b"), BlankLine,
                       Author("ben"), Reason(<<"slow">>), Atom("a")>>
SomeMasks == {<<>>, Masks}

PortageInit ==
    /\ UserConfigInit /\ ReposConfInit /\ PackageMaskInit
    /\ edits \in {"fragments", "repos.conf", "masks"}
    /\ edits # "fragments" => file = <<<<>>, <<>>, <<>>>>
    /\ edits # "repos.conf" => isDir /\ conf = <<>>
    /\ edits # "masks" => masks = <<>>

PortageNext ==
    \/ edits = "fragments" /\ UserConfigNext /\ UNCHANGED <<confVars, maskVars, edits>>
    \/ edits = "repos.conf" /\ ReposConfNext /\ UNCHANGED <<fragmentVars, maskVars, edits>>
    \/ edits = "masks" /\ PackageMaskNext /\ UNCHANGED <<fragmentVars, confVars, edits>>

PortageSpec == PortageInit /\ [][PortageNext]_<<fragmentVars, confVars, maskVars, edits>>
=============================================================================
