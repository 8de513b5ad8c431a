---------------------------- MODULE MCProjection ----------------------------
(***************************************************************************)
(* Instances of Projection for TLC.  The handlers of different families    *)
(* share no table, except that those of the first two share posts.         *)
(***************************************************************************)
EXTENDS Projection

CONSTANTS u1, u2, p1

MCUsers == {u1, u2}
MCPosts == {p1}

Wide ==
    {{"post_created", "like", "tip", "post_deleted", "malformed"},
     {"post_created", "like", "post_reported", "report_dismissed", "post_removed"},
     {"follow", "unfollow", "block", "unblock"},
     {"profile_set", "profile_deleted", "dm_key_published"}}
Narrow ==
    {{"pool_created", "pool_deposit", "pool_withdraw", "pool_admin_added",
      "pool_admin_removed"},
     {"gov_proposal_created", "gov_vote", "gov_proposal_executed", "gov_proposal_vetoed"}}
AllFamilies == [topics : Wide, events : {3}] \cup [topics : Narrow, events : {4}]
=============================================================================
