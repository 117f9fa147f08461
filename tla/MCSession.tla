------------------------------- MODULE MCSession --------------------------------
(***************************************************************************)
(* Session.tla for TLC: the command lines of the processes.                *)
(***************************************************************************)
EXTENDS Session

CONSTANTS root, guest, third, secret, wrong

\* fluxdb --user root, with everything from the environment
RootShell ==
    [bootstrap |-> None, user |-> root, password |-> secret, password_stdin |-> FALSE,
     add_user |-> None, add_role |-> "read_only", new_password |-> secret,
     new_password_stdin |-> FALSE, batch |-> FALSE]

GuestShell == [RootShell EXCEPT !.user = guest]
RootBatch == [RootShell EXCEPT !.batch = TRUE]
GuestBatch == [GuestShell EXCEPT !.batch = TRUE]
BootstrapRoot == [RootShell EXCEPT !.bootstrap = root]
AddGuest(role) == [RootShell EXCEPT !.add_user = guest, !.add_role = role]
AddRoot(role) == [GuestShell EXCEPT !.add_user = root, !.add_role = role]
GuestAddsThird == [GuestShell EXCEPT !.add_user = third]

\* README.md:38
QuickStart == [BootstrapRoot EXCEPT !.password_stdin = TRUE]

Accounts ==
    {BootstrapRoot, QuickStart, RootBatch, GuestShell, GuestBatch, GuestAddsThird,
     [BootstrapRoot EXCEPT !.password_stdin = TRUE, !.bootstrap = guest],
     [RootShell EXCEPT !.user = guest, !.password = wrong]}
        \cup {AddGuest(role) : role \in Roles} \cup {AddRoot(role) : role \in Roles}
        \cup {[AddGuest("admin") EXCEPT !.password_stdin = TRUE, !.new_password_stdin = TRUE]}
=================================================================================
