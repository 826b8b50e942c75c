------------------------ MODULE MCUpstreamLifecycle ------------------------
(* What happens around the server, for model checking UpstreamLifecycle. *)
EXTENDS UpstreamLifecycle, TLC

Spend(e, m, l, a, r, d, c) ==
    ("edit" :> e) @@ ("cliLogin" :> m) @@ ("login" :> l) @@ ("add" :> a) @@ ("remove" :> r)
        @@ ("drop" :> d) @@ ("close" :> c)

\* add_server and remove_server race a startup install, a login and a reconnect.
Admins == Spend(0, 0, 1, 1, 1, 1, 0)

\* Two logins and a remove race a startup install.
Logins == Spend(0, 0, 2, 0, 1, 0, 0)

\* A login from the command line races another one and a remove.
CLILogins == Spend(0, 1, 1, 0, 1, 0, 0)

\* The file is edited while the server connects and logs in.
Edits == Spend(2, 0, 1, 0, 0, 0, 0)

\* Close races a login, a reconnect and the config check.
Closes == Spend(0, 0, 1, 0, 0, 1, 1)

Operations == {Admins, Logins, CLILogins}
Changes == {Edits, Closes}

\* The settings are interchangeable, so a behaviour may as well begin with these.
First == CHOOSE s \in Settings : TRUE
FirstInit == Init /\ (file = None \/ file.settings = First)
FirstSpec == FirstInit /\ [][Next]_vars /\ Fairness
=============================================================================
