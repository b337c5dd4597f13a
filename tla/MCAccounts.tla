----------------------------- MODULE MCAccounts -----------------------------
(* Instances of Accounts for TLC. *)
EXTENDS Accounts, TLC

CONSTANTS root, ann, bob, k0, k1, c1, c2

C(kind, user, value, choice) == [kind |-> kind, user |-> user, value |-> value, choice |-> choice]

MCCalls ==
  {C(kind, ann, 2, FALSE) : kind \in UserForms \cup OverrideCalls \cup VolumeCalls
                        \cup {"users_budget", "revoke_key", "login", "jwt_request"}}
  \cup {C(kind, ann, 1, TRUE) : kind \in {"save", "put_override", "volume_page",
                                          "add_key", "reset_key", "chat"}}
  \cup {C(kind, bob, 1, TRUE) : kind \in {"create_user", "sync", "chat"}}

MCFirstKey == [u \in {root, ann} |-> IF u = root THEN k0 ELSE k1]

(* Calls are served in the same way by whichever client. *)
ClientSymmetry == Permutations(Clients)

=============================================================================
