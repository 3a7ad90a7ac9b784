---------------------------- MODULE MCSipHandler ----------------------------
(* Small instances of SipHandler for TLC. *)
EXTENDS SipHandler, TLC

CONSTANTS p1, u, c

Entry(expire, cps) == [peer |-> p1, expire |-> expire, cps |-> cps]

\* An ACL whose second row for the peer expires and takes its rate, one and a half
\* calls per second, from the first, and one that does not list the peer.
MCAclFiles == {<<Entry(Nothing, 3), Entry(1, Nothing)>>, <<>>}

\* The number is ported in Canada, and in the US at first.
MCUsFiles == <<u, NONE>>
MCCaFiles == <<c>>

MCSymmetry == Permutations(Handlers)

=============================================================================
