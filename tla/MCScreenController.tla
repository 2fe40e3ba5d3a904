-------------------------- MODULE MCScreenController --------------------------
(* TLC instance of ScreenController: two URL screens and one built-in. *)
EXTENDS ScreenController

MCUrls == {"u", "v"}
MCBuiltins == {"b"}
MCBoot == "b"
MCPreloads == {<<"v">>}
MCTwoPreloads == {<<"v", "u">>}
MCSlots == {1, 2}
==============================================================================
