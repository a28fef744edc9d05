------------------------------ MODULE Endpoints ------------------------------
(***************************************************************************)
(* The methods of FormationClient and ServerClient: for each, what it asks *)
(* request or stream_sse for.  "*" stands for the one argument a path may  *)
(* have.                                                                   *)
(*                                                                         *)
(*   key   "admin" or "client" key, "signed" by ServerClient, "none"       *)
(*   user  where the caller's user id goes: "header", "query", "body"      *)
(*   body  "none"    nullptr                                               *)
(*         "payload" what the caller gives, null included                  *)
(*         "made"    an object built of the arguments                      *)
(*         "stream"  the caller's payload with "stream": true              *)
(***************************************************************************)
EXTENDS Sequences

Ops(method, key, user, body, routes) ==
  {[name |-> n, method |-> method, key |-> key, user |-> user, body |-> body,
    path |-> routes[n]] : n \in DOMAIN routes}

\* Reading with the admin key.
AdminReads == Ops("GET", "admin", {}, "none",
  [get_status |-> <<"status">>, get_config |-> <<"config">>,
   get_formation_info |-> <<"formation">>,
   get_agents |-> <<"agents">>, get_agent |-> <<"agents", "*">>,
   get_mcp_servers |-> <<"mcp", "servers">>, get_mcp_server |-> <<"mcp", "servers", "*">>,
   get_mcp_tools |-> <<"mcp", "tools">>,
   get_secrets |-> <<"secrets">>, get_secret |-> <<"secrets", "*">>,
   get_memory_config |-> <<"memory">>, get_buffer_stats |-> <<"memory", "stats">>,
   get_scheduler_config |-> <<"scheduler">>,
   get_scheduler_job |-> <<"scheduler", "jobs", "*">>,
   get_async_config |-> <<"async">>, get_a2a_config |-> <<"a2a">>,
   get_logging_config |-> <<"logging">>,
   get_logging_destinations |-> <<"logging", "destinations">>,
   get_overlord_config |-> <<"overlord">>, get_overlord_soul |-> <<"overlord", "soul">>,
   get_llm_settings |-> <<"llm", "settings">>, get_audit_log |-> <<"audit">>,
   list_credential_services |-> <<"credentials", "services">>,
   get_user_identifiers |-> <<"users", "identifiers", "*">>])

\* Changing with the admin key.
AdminWrites ==
  Ops("PUT", "admin", {}, "made", [set_secret |-> <<"secrets", "*">>])
    \cup Ops("PUT", "admin", {}, "payload",
             [update_scheduler_job |-> <<"scheduler", "jobs", "*">>])
    \cup Ops("DELETE", "admin", {}, "none",
             [delete_secret |-> <<"secrets", "*">>, clear_all_buffers |-> <<"memory", "buffer">>,
              delete_scheduler_job |-> <<"scheduler", "jobs", "*">>,
              clear_audit_log |-> <<"audit">>,
              unlink_user_identifier |-> <<"users", "identifiers", "*">>])
    \cup Ops("POST", "admin", {}, "none",
             [pause_scheduler_job |-> <<"scheduler", "jobs", "*", "pause">>,
              resume_scheduler_job |-> <<"scheduler", "jobs", "*", "resume">>])
    \cup Ops("POST", "admin", {"body"}, "made",
             [create_scheduler_job |-> <<"scheduler", "jobs">>,
              link_user_identifier |-> <<"users", "identifiers">>])

\* On behalf of a user, or of nobody in particular.
UserReads ==
  Ops("GET", "client", {}, "none",
      [health |-> <<"health">>, get_triggers |-> <<"triggers">>,
       get_trigger |-> <<"triggers", "*">>, get_sops |-> <<"sops">>, get_sop |-> <<"sops", "*">>])
    \cup Ops("GET", "client", {"header"}, "none",
             [get_session |-> <<"sessions", "*">>,
              get_session_messages |-> <<"sessions", "*", "messages">>,
              get_requests |-> <<"requests">>, get_request_status |-> <<"requests", "*">>,
              list_credentials |-> <<"credentials">>, get_credential |-> <<"credentials", "*">>])
    \cup Ops("GET", "client", {"query", "header"}, "none",
             [get_sessions |-> <<"sessions">>, get_memories |-> <<"memories">>])
    \cup Ops("GET", "client", {"query"}, "none", [get_user_buffer |-> <<"memory", "buffer">>])
    \cup Ops("GET", "admin", {"query"}, "none", [get_scheduler_jobs |-> <<"scheduler", "jobs">>])

\* Mutant of Chats: audio goes where text goes.
ChatsAlike ==
  Ops("POST", "client", {"header"}, "payload",
      [chat |-> <<"chat">>, audio_chat |-> <<"chat">>])

Chats ==
  Ops("POST", "client", {"header"}, "payload",
      [chat |-> <<"chat">>, audio_chat |-> <<"audiochat">>])

UserWrites ==
  Ops("POST", "client", {"header"}, "payload",
      [fire_trigger |-> <<"triggers", "*">>, create_credential |-> <<"credentials">>])
    \cup Ops("POST", "client", {"header"}, "made",
             [restore_session |-> <<"sessions", "*", "restore">>])
    \cup Ops("POST", "client", {"body", "header"}, "made", [add_memory |-> <<"memories">>])
    \cup Ops("POST", "client", {"body"}, "made", [resolve_user |-> <<"users", "resolve">>])
    \cup Ops("DELETE", "client", {"header"}, "none",
             [cancel_request |-> <<"requests", "*">>,
              delete_credential |-> <<"credentials", "*">>])
    \cup Ops("DELETE", "client", {"query", "header"}, "none",
             [delete_memory |-> <<"memories", "*">>])
    \cup Ops("DELETE", "client", {"query"}, "none",
             [clear_user_buffer |-> <<"memory", "buffer">>,
              clear_session_buffer |-> <<"memory", "buffer", "*">>])

FormationStreams ==
  Ops("POST", "client", {"header"}, "stream",
      [chat_stream |-> <<"chat">>, audio_chat_stream |-> <<"audiochat">>])
    \cup Ops("GET", "client", {"query", "header"}, "none", [stream_events |-> <<"events">>])
    \cup Ops("GET", "admin", {}, "none", [stream_logs |-> <<"logs">>])

ServerReads ==
  Ops("GET", "none", {}, "none", [health |-> <<"health">>])
    \cup Ops("GET", "signed", {}, "none",
             [status |-> <<"rpc", "server", "status">>,
              list_formations |-> <<"rpc", "formations">>,
              get_formation |-> <<"rpc", "formations", "*">>,
              get_formation_logs |-> <<"rpc", "formations", "*", "logs">>,
              get_server_logs |-> <<"rpc", "server", "logs">>])

\* Mutant of Lifecycle: the five need no payload.
LifecycleBare(routes) == Ops("POST", "signed", {}, "none", routes)

\* They send an empty object.
Lifecycle(routes) == Ops("POST", "signed", {}, "made", routes)

ServerWrites ==
  Lifecycle([stop_formation |-> <<"rpc", "formations", "*", "stop">>,
             start_formation |-> <<"rpc", "formations", "*", "start">>,
             restart_formation |-> <<"rpc", "formations", "*", "restart">>,
             rollback_formation |-> <<"rpc", "formations", "*", "rollback">>,
             cancel_update |-> <<"rpc", "formations", "*", "cancel-update">>])
    \cup Ops("POST", "signed", {}, "payload",
             [deploy_formation |-> <<"rpc", "formations", "*", "deploy">>,
              update_formation |-> <<"rpc", "formations", "*", "update">>])
    \cup Ops("DELETE", "signed", {}, "none", [delete_formation |-> <<"rpc", "formations", "*">>])

ServerStreams ==
  Ops("POST", "signed", {}, "payload",
      [deploy_formation_stream |-> <<"rpc", "formations", "*", "deploy", "stream">>])
    \cup Ops("GET", "signed", {}, "none",
             [stream_formation_logs |-> <<"rpc", "formations", "*", "logs", "stream">>])

FormationOps == AdminReads \cup AdminWrites \cup UserReads \cup Chats \cup UserWrites
                  \cup FormationStreams
ServerOps    == ServerReads \cup ServerWrites \cup ServerStreams

\* What an option adds to the query when it is set.
Options ==
  [get_sessions |-> "limit", get_memories |-> "limit", get_formation_logs |-> "limit",
   get_server_logs |-> "limit"]
=============================================================================
