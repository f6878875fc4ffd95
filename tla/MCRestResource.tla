--------------------------- MODULE MCRestResource ---------------------------
(***************************************************************************)
(* Instances of RestResource for TLC.                                      *)
(***************************************************************************)
EXTENDS RestResource

CONSTANTS v1, v2

Acl == [project_id |-> v1, name |-> v1, blocks |-> v1]
Backup == [project_id |-> v1, spec |-> v1]
Slack == [project_id |-> v1, name |-> v1, channel_id |-> v1, token |-> v1]
Logs ==
  [project_id |-> v1, name |-> v1, group_name |-> v1,
   access_key_id |-> v1, secret_access_key |-> v1]

\* For each resource an edit of every sort of attribute, its emptying included, and for the
\* integration the API's own spelling of a key.
MCConfigs ==
  [project |-> {[name |-> v1], [name |-> Empty]},
   acl |-> {Acl, [Acl EXCEPT !.blocks = Empty], [Acl EXCEPT !.blocks = Foreign],
            [Acl EXCEPT !.blocks = Bare],
            [Acl EXCEPT !.name = v2, !.project_id = v2]},
   backup |-> {Backup, [Backup EXCEPT !.spec = v2]},
   integration |-> {Slack, [Slack EXCEPT !.token = v2, !.name = Empty],
                    [project_id |-> v1, name |-> v1, channelId |-> v2, api_key |-> v1]},
   cloudwatch |-> {Logs, [Logs EXCEPT !.secret_access_key = v2], [Logs EXCEPT !.group_name = v2],
                   [Logs EXCEPT !.access_key_id = Empty]}]
=============================================================================
