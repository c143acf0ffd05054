---------------------------- MODULE MCPostSetup ----------------------------
EXTENDS PostSetup

MCNames == { <<"n1">>, <<"n2">> }

\* With password lists named by one piece of a name, and names of two pieces
\* at most: nobody, a name, a longer one that begins with it and one that is
\* too long.
Account(current, username) == [currentUser |-> current, username |-> username]
MCAccounts == { Account(Missing, Missing), Account(<<"A">>, Missing), Account(Missing, <<"A">>),
                Account(<<"A", "B">>, <<"A">>), Account(<<"A", "B", "C">>, <<"A">>) }

Boot    == <<"[boot]">>
Mouse   == <<"[mouse]">>
Own(n)  == n \o <<"=">> \o <<"C:">>

\* No list; the list of one user, of another one whose name begins with it,
\* and a section behind the list.
MCInis == { << Boot, Own(<<"A">>) >>,
            << Boot, Header, Own(<<"A">>), Own(<<"A", "B">>) >>,
            << Header, Own(<<"A", "B">>), Mouse, Own(<<"D">>) >> }

AllKeys == { KeyOf[v] : v \in DOMAIN KeyOf }

Client(driver, default) == [driver |-> driver, default |-> default]
Vredir   == Client("VREDIR.VXD", "value")
MCSystems ==
  { [lite |-> FALSE, keys |-> AllKeys, computer |-> <<"old">>,
     clients |-> << Client("other", "value"), Vredir >>,
     net |-> [family |-> <<"unset", "unset">>, vredir |-> <<"unset">>]],
    [lite |-> TRUE, keys |-> AllKeys \ {"VNETSUP", "PNP0C05", "Provider", "Winlogon"}, computer |-> <<"old">>,
     clients |-> << Vredir, Vredir >>,
     net |-> [family |-> Missing, vredir |-> <<"unset">>]],
    [lite |-> FALSE, keys |-> AllKeys \ {"VNETSUP", "Logon"}, computer |-> Missing,
     clients |-> << >>, net |-> [family |-> Missing, vredir |-> Missing]] }
=============================================================================
