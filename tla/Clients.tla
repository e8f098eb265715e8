------------------------------- MODULE Clients -------------------------------
(***************************************************************************)
(* The clients of the server: the terminal interface, the dispatch of a    *)
(* session through the app server, and the plugin of the editor.           *)
(***************************************************************************)
EXTENDS Terminal, Sessions, EditorPlugin

\* Every part has its types, and a client does not mix up its requests: what
\* the interface shows belongs to the request that it waits for, and the
\* plugin settles every call once, stops its child with the last one and
\* fails by the exit of a child only what that child was asked (app.rs,
\* client.lua settle and on_exit).
ClientsConsistent ==
    /\ TerminalTypeOK /\ OneRequest
    /\ DispatchTypeOK
    /\ PluginTypeOK /\ ChildServesPending /\ CalledOnce /\ ExitsAreOwn

=============================================================================
