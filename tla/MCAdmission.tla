---------------------------- MODULE MCAdmission ----------------------------
(* Two addresses, a configuration with both classes and one with neither.  *)
EXTENDS Admission, TLC

CONSTANTS host1, host2, users, local

Allow(s, k) == [Entry(FALSE, Hosts, "acl") EXCEPT !.rule = 2, !.cls = k, !.conf = "conf"]
SomeConfigs == {
    [max |-> users :> 2 @@ local :> 1, acls |-> <<<<>>, <<Allow(2, local)>>, <<Allow(3, users)>>>>],
    [max |-> <<>>, acls |-> <<<<>>, <<Allow(2, local)>>, <<>>>>] }
SomeMasks == {{host1}}
Symmetry == Permutations(Slots)
SomeLengths == <<1, 2>>
=============================================================================
