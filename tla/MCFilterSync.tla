---------------------------- MODULE MCFilterSync ----------------------------
EXTENDS FilterSync

L(name, kids) == [taken |-> TRUE, name |-> name, kids |-> kids]
(* A comment, an exception, an address.                                    *)
Noise == [taken |-> FALSE, name |-> <<"c">>, kids |-> FALSE]

(* example.com with its subdomains, and then in the other notation: the    *)
(* second line for a name must not narrow the first.                       *)
MCLists == << <<L(<<"b", "c">>, FALSE), L(<<"b", "c">>, TRUE)>>,
              <<Noise, L(<<"a", "b", "c">>, TRUE)>> >>

MCEntries == {<<"allow", L(<<"a", "b", "c">>, FALSE)>>}

MCNames == {<<"c">>, <<"b", "c">>, <<"a", "b", "c">>, <<"x", "a", "b", "c">>, <<"a", "c">>}
=============================================================================
