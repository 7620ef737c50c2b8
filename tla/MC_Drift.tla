------------------------------ MODULE MC_Drift ------------------------------
(* Drift for TLC: two tenants with a host each, or one with one. *)
EXTENDS Drift, TLC

CONSTANTS h1, h2, t1, t2, n1, v1

Bare == [k \in ListKinds |-> Nothing]
     @@ [ssh |-> [f \in SshFields |-> "no"], active |-> TRUE]

Listening == [Bare EXCEPT !.listeners[n1] = v1]

TwoTenants == h1 :> t1 @@ h2 :> t2
OneTenant  == h1 :> t1
OneStem    == [h \in Hosts |-> "host"]
OnePipe    == Hosts \X {1}
OneScanned == {<<h1, 1>>}

Settings == {<<"ssh", "passwordAuthentication">>}

\* All that says "policy" of sshd.
OneMute == {[tenant |-> t1, category |-> "ssh", pattern |-> "policy", host |-> None]}
NoMute  == {}

\* The first of the console's templates, and what it means.
Template == [tenant |-> t1, id |-> "password", category |-> "ssh", severity |-> "high",
             key |-> <<"sshConfig", "passwordAuthentication">>, value |-> "no"]
Templates == {Template}
Real      == {[Template EXCEPT !.key = <<"ssh", "passwordAuthentication">>]}
=============================================================================
