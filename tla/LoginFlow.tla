------------------------------ MODULE LoginFlow ------------------------------
(***************************************************************************)
(* The web admin's two-step login (web/src/features/auth/api.ts).  A login  *)
(* that needs a second factor leaves its credentials in memory, and the     *)
(* verification of a code sends them again.  Every call awaits the daemon,  *)
(* and other calls run in between: a login is named by its number, so that  *)
(* the credentials of two logins are told apart.                            *)
(***************************************************************************)
EXTENDS Naturals, FiniteSets

CONSTANTS MaxCalls,     \* bound: logins and logouts
          MaxAwaits     \* bound: calls in flight

VARIABLES pending,      \* the login whose credentials are kept, or 0
          latest,       \* number of the latest login or logout
          awaits,       \* calls in flight: <<"login" or "verify", login>>
          overtaken,    \* logins answered after a later login or logout (history)
          verified      \* logins a code has completed (history)

vars == <<pending, latest, awaits, overtaken, verified>>

Init == pending = 0 /\ latest = 0 /\ awaits = {} /\ overtaken = {} /\ verified = {}

\* Mutant: what an earlier login left stays until the answer.
StartLoginLeaving ==
  /\ latest < MaxCalls /\ Cardinality(awaits) < MaxAwaits
  /\ latest' = latest + 1
  /\ awaits' = awaits \cup {<<"login", latest'>>}
  /\ UNCHANGED <<pending, overtaken, verified>>

\* login, up to its await.
StartLogin ==
  /\ latest < MaxCalls /\ Cardinality(awaits) < MaxAwaits
  /\ pending' = 0
  /\ latest' = latest + 1
  /\ awaits' = awaits \cup {<<"login", latest'>>}
  /\ UNCHANGED <<overtaken, verified>>

\* Its answer: a second factor is required, or it is over one way or another.
FinishLogin(login) ==
  /\ <<"login", login>> \in awaits
  /\ awaits' = awaits \ {<<"login", login>>}
  /\ \/ /\ pending' = login
        /\ overtaken' = IF login = latest THEN overtaken ELSE overtaken \cup {login}
     \/ UNCHANGED <<pending, overtaken>>
  /\ UNCHANGED <<latest, verified>>

\* logout; the answer to its request changes nothing here.
Logout ==
  /\ latest < MaxCalls
  /\ pending' = 0
  /\ latest' = latest + 1
  /\ UNCHANGED <<awaits, overtaken, verified>>

\* verifyTotp and verifyBackupCode, up to the await.
StartVerify ==
  /\ pending # 0 /\ Cardinality(awaits) < MaxAwaits
  /\ awaits' = awaits \cup {<<"verify", pending>>}
  /\ UNCHANGED <<pending, latest, overtaken, verified>>

\* Their answer: the code is right, whoever is pending by now; or it is not.
FinishVerify(login) ==
  /\ <<"verify", login>> \in awaits
  /\ awaits' = awaits \ {<<"verify", login>>}
  /\ \/ pending' = 0 /\ verified' = verified \cup {login}
     \/ UNCHANGED <<pending, verified>>
  /\ UNCHANGED <<latest, overtaken>>

Next ==
  \/ StartLogin \/ Logout \/ StartVerify
  \/ \E login \in 1..MaxCalls : FinishLogin(login) \/ FinishVerify(login)

Spec == Init /\ [][Next]_vars
-----------------------------------------------------------------------------
TypeOK ==
  /\ latest \in 0..MaxCalls /\ pending \in 0..latest
  /\ awaits \subseteq {"login", "verify"} \X (1..latest)
  /\ overtaken \subseteq 1..latest /\ verified \subseteq 1..latest

(* The credentials in memory are those of the latest login, and of none     *)
(* that a code has completed or a logout has ended ("cleared on every       *)
(* terminal outcome"), in every order of calls and answers but one: the     *)
(* answer to a login that comes after a later login or logout brings that   *)
(* login back.                                                              *)
PendingIsLatest ==
  pending # 0 => pending \notin verified /\ (pending = latest \/ pending \in overtaken)
=============================================================================
