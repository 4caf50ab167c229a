-------------------------- MODULE MCRestartTracker --------------------------
(* Small instances of RestartTracker for TLC. *)
EXTENDS RestartTracker

\* "ns/web" and "ns/web-1".
TwoPods == {<<"ns", "/", "web">>, <<"ns", "/", "web", "-1">>}
OnePod  == {<<"ns", "/", "web">>}
=============================================================================
