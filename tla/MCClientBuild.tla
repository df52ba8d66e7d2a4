---------------------------- MODULE MCClientBuild ----------------------------
(* A small instance of ClientBuild: a plain form, one for a version whose sources
   the patches do not know, and one with every option for a version whose
   workflows and pages have other names. *)
EXTENDS ClientBuild

Plain ==
  [complete |-> TRUE, repo |-> "public", targets |-> {}, version |-> "official", lost |-> {},
   scopes |-> {}, servers |-> <<"id">>, password |-> FALSE, hide |-> FALSE,
   about |-> FALSE, icon |-> "none"]

Newer == [Plain EXCEPT !.version = "restructured"]

Renamed ==
  [Plain EXCEPT !.targets = {"appimage", "ios"}, !.scopes = {"repo", "workflow"},
   !.servers = <<"id", "relay">>, !.password = TRUE, !.hide = TRUE, !.about = TRUE,
   !.icon = "png", !.lost = {"permit", "linux", "links"}]

Forms == {Plain, Newer, Renamed}
=============================================================================
