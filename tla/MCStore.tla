------------------------------ MODULE MCStore --------------------------------
(* Store with the requests of one or two symbols or places, with and without *)
(* --link, --from and --from-all.                                            *)
EXTENDS Store, TLC

CONSTANTS foo, bar

\* All jobs run the same program.
JobSymmetry == Permutations(Jobs)

Within == Sources \ Beyond
AllUnits == [src : Within, syms : SUBSET Symbols] \cup [src : Beyond, syms : {{foo}}]

Ask(code, from, all, link) == [code |-> code, from |-> from, all |-> all, link |-> link]
AllRequests == {Ask(<<foo>>, {2}, FALSE, FALSE), Ask(<<foo, 1>>, {}, FALSE, FALSE),
                Ask(<<foo, bar>>, {}, FALSE, TRUE), Ask(<<bar>>, {1, 2}, FALSE, FALSE),
                Ask(<<foo>>, {}, TRUE, FALSE)}
FewRequests == {Ask(<<foo>>, {}, FALSE, FALSE), Ask(<<foo, bar>>, {2}, FALSE, TRUE)}
BothUnits == [src : Within, syms : {{foo}, {foo, bar}}] \cup [src : Beyond, syms : {{foo}}]

=============================================================================
