---------------------------- MODULE HostAuthority ----------------------------
(***************************************************************************)
(* The trusted host's current authority: what the operator's access file   *)
(* says of every actor, and HostAuthority::resolve, which turns one read   *)
(* of it into a TrustedContext.  One scope (tenant and application) is     *)
(* modelled, so the scope comparisons of resolve always succeed.  Facts of *)
(* one actor abstract the file, the clock and the presented credential:    *)
(* `session' says what verifying the credential yields at this moment.     *)
(***************************************************************************)
EXTENDS Naturals

CONSTANTS
    Actors,         \* canonical actor identities, one credential each
    Roles,          \* role identifiers
    Grants,         \* host capabilities (Read, Write, Design, ...)
    Bindings,       \* registry bindings, one per store
    Origins,        \* browser origins
    NoOrigin,       \* the NativeBearer channel, which carries no origin
    AccessFiles,    \* the files the operator may install
    MaxGeneration   \* bound: how often the authority may change

AccessFacts ==
    [session : {"live", "expired", "revoked", "unverified"},
     active  : BOOLEAN,
     mrev    : Nat,
     roles   : SUBSET Roles,
     grants  : SUBSET Grants,
     binding : Bindings,
     origins : SUBSET Origins]

ASSUME AuthorityAssumption ==
    /\ AccessFiles \subseteq [Actors -> AccessFacts]
    /\ AccessFiles # {}
    /\ NoOrigin \notin Origins
    /\ MaxGeneration \in Nat

VARIABLES
    access,      \* the facts a resolution reads now, per actor
    generation   \* how many times they have changed

authorityVars == <<access, generation>>

(* TrustedContext: roles and membership revision are captured, grants are not. *)
Contexts == [actor : Actors, roles : SUBSET Roles, mrev : Nat, binding : Bindings]

AuthorityTypeOK ==
    /\ access \in [Actors -> AccessFacts]
    /\ generation \in Nat

-----------------------------------------------------------------------------
(* HostAuthority::resolve: the session, the membership, the grant and the  *)
(* origin of one coherent access snapshot.                                 *)

Established(f) == f.session = "live" /\ f.active /\ f.mrev # 0

OriginAllowed(f, origin) == origin = NoOrigin \/ origin \in f.origins

Resolves(actor, origin, grant) ==
    LET f == access[actor]
    IN  Established(f) /\ grant \in f.grants /\ OriginAllowed(f, origin)

ContextOf(actor) ==
    LET f == access[actor]
    IN  [actor |-> actor, roles |-> f.roles, mrev |-> f.mrev, binding |-> f.binding]

-----------------------------------------------------------------------------
(* The environment of every request: the operator replaces the file, and   *)
(* the clock passes a session's expiry.                                    *)

AuthorityInit ==
    /\ access \in AccessFiles
    /\ generation = 0

Publish ==
    /\ generation < MaxGeneration
    /\ access' \in AccessFiles \ {access}
    /\ generation' = generation + 1

Expire(actor) ==
    /\ generation < MaxGeneration
    /\ access[actor].session = "live"
    /\ access' = [access EXCEPT ![actor].session = "expired"]
    /\ generation' = generation + 1

AuthorityNext == Publish \/ \E actor \in Actors : Expire(actor)
==============================================================================
