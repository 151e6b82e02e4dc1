----------------------------- MODULE MCApiKeys -----------------------------
(* A MusicBrainz user, and a Google user whose OpenID has an account.  Sign-ins
   and API requests meet in the table of accounts only, so each side is explored
   on its own: scene says which.  On the side of the API, somebody signs in with
   the OpenID first, and then changes keys; three more events are enough for a
   change and the requests before and after it. *)
EXTENDS ApiKeys, TLC

CONSTANTS ann, g1, o1

VARIABLE scene

MCOpenIdOf == [g \in {g1} |-> o1]
MCServerOf == [h \in Handlers |-> CHOOSE s \in Servers : TRUE]

Symmetry ==
  Permutations(Requests) \union Permutations(Browsers) \union Permutations(Handlers)

SignIn ==
  \E r \in Requests :
    \/ events = 0 /\ \E b \in Browsers : OpenIdCallback(r, b, o1)
    \/ FindUser(r) \/ Commit(r) \/ Answer(r)

NobodyIn == \A b \in Browsers : cookie[b].id = None

MCInit == scene \in {"web", "api"} /\ Init

MCNext ==
  /\ UNCHANGED scene
  /\ \/ scene = "web" /\ AccountsNext /\ UNCHANGED kvars
     \/ /\ scene = "api"
        /\ IF NobodyIn THEN SignIn /\ KeysNoted
           ELSE \/ (CreateAccount \/ \E b \in Browsers : NewApiKey(b)) /\ KeysNoted
                \/ ApiStep
        /\ events' < MaxEvents

MCSpec == MCInit /\ [][MCNext]_<<scene, vars>>
=============================================================================
