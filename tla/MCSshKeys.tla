------------------------------ MODULE MCSshKeys ------------------------------
(* Two types of keys; texts that replace, add and repeat a type.  The two    *)
(* tables are worked on one at a time: no property relates them.             *)
EXTENDS SshKeys, TLC

K(t, i) == [type |-> t, id |-> i]
MCTypeOrder == <<"ecdsa", "ed25519">>
MCDocuments ==
    {<<K("ecdsa", "x")>>, <<K("ed25519", "y"), K("ecdsa", "y")>>,
     <<Comment, K("ed25519", "x")>>, <<K("ecdsa", "x"), K("ecdsa", "y")>>, <<Junk>>}
MCHostTypes == <<"rsa", "ed25519">>

MCOneTable ==
    \/ made = 0 /\ loading.todo = <<>> /\ \A a \in Admins : job[a].op # "rotate"
    \/ ~Busy /\ accepted = <<>>
=============================================================================
