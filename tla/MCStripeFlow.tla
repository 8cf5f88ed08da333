---------------------------- MODULE MCStripeFlow ----------------------------
(* StripeFlow in a handful of worlds, for TLC.                               *)
EXTENDS StripeFlow, TLC

\* Subscriptions take the same steps and start equal, and so do flows.
Interchangeable == Permutations(Flow) \cup Permutations(Sub)

FreeRow    == NoRow
FounderRow == [NoRow EXCEPT !.tier = "paid", !.source = "grant"]
StoreRow   == [NoRow EXCEPT !.tier = "paid", !.provider = "store", !.status = "active"]

\* Checkouts that begin with a trial, or without one because it is used up.
TrialMoves == {<<"none", "trialing">>, <<"none", "active">>, <<"trialing", "active">>,
               <<"trialing", "paused">>, <<"active", "canceled">>}
\* A first payment that fails or goes through, and later ones that fail.
PaidMoves  == {<<"none", "incomplete">>, <<"incomplete", "active">>,
               <<"incomplete", "incomplete_expired">>, <<"active", "unpaid">>,
               <<"unpaid", "active">>, <<"unpaid", "canceled">>}
\* One subscription through its states.
LateMoves  == {<<"none", "trialing">>, <<"trialing", "past_due">>, <<"past_due", "unpaid">>,
               <<"unpaid", "active">>, <<"active", "canceled">>}

\* A failed payment beside a grant.
UnpaidMoves == {<<"none", "incomplete">>, <<"incomplete", "unpaid">>, <<"unpaid", "active">>}

InWorld(row1, moves1, subs1, mailed1, may1, faults1) ==
  [row |-> row1, moves |-> moves1, subs |-> subs1, mailed |-> mailed1, may |-> may1,
   faults |-> faults1]
Anything == {"lapse", "fail", "storeTrial"}

TrialWorlds == {InWorld(FreeRow, TrialMoves, 2, {}, Anything, 1)}
GrantWorlds == {InWorld(FounderRow, PaidMoves, 2, {}, {"lapse", "fail"}, 1),
                InWorld(StoreRow, TrialMoves, 1, {}, {"lapse", "fail"}, 2)}
MailWorlds  == {InWorld(FreeRow, LateMoves, 1, Kinds, {"lapse", "fail"}, 2),
                InWorld(FounderRow, UnpaidMoves, 2, {"billing_failed"}, {"lapse"}, 1)}
SlotWorlds  == TrialWorlds \cup GrantWorlds \cup MailWorlds
============================================================================
