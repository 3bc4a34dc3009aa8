------------------------------ MODULE MCChatStream ------------------------------
(* Instance of ChatStream for TLC: lines that fill the text exactly, overrun it, and end
   it on half a pair; two steps that are reported again; results of every kind; requests
   of either kind with and without a cap, and mounts that are nested, blank, repeated or chained. *)
EXTENDS ChatStream

Step(delta, step, usage, tool) ==
  [event |-> "step_update", delta |-> delta, step |-> step, usage |-> usage, tool |-> tool]
Res(valid, status, response, conversation, usage) ==
  [event |-> "result", valid |-> valid, status |-> status, response |-> response,
   conversation |-> conversation, usage |-> usage]

MCEvents ==
  {[event |-> "malformed-line"], [event |-> "line-too-long"],
   [event |-> "init", conversation |-> ""], [event |-> "init", conversation |-> "c1"],
   Step(<<"a">>, 1, 2, ""), Step(<<"a", "a">>, 1, 1, "other"), Step(<<"H", "L">>, 2, 3, ""),
   Step(<<"a">>, 2, 0, "view_file"), Step(<<>>, 2, 0, "run_command"),
   Res(TRUE, "SUCCESS", <<>>, "c2", 0), Res(TRUE, "SUCCESS", <<"a", "a", "H", "L">>, "c2", 7),
   Res(TRUE, "ERROR", <<>>, "c1", 7), Res(FALSE, "SUCCESS", <<>>, "c1", 0)}

Chat(stream, streamSteps, capChars, mounts, path) ==
  [stream |-> stream, streamSteps |-> streamSteps, capChars |-> capChars,
   mounts |-> mounts, path |-> path]

(* The clients that count, and one who names a path under several tables of mounts. *)
TextChats ==
  {Chat(TRUE, TRUE, NoCap, <<>>, <<"x">>), Chat(TRUE, FALSE, 2, <<>>, <<"x">>),
   Chat(TRUE, TRUE, 4, <<>>, <<"x">>), Chat(FALSE, TRUE, 2, <<>>, <<"x">>)}
PathChat(mounts, path) == Chat(TRUE, TRUE, 2, mounts, path)
PathChats ==
  {PathChat(ParseWorkspaceMounts(<<"h">>, <<Mount(<<"g">>, <<"workspace", "g">>)>>), <<"g", "x">>),
   PathChat(ParseWorkspaceMounts(<<"h">>, <<Mount(<<"h", "p">>, <<"p">>)>>), <<"h", "p", "x">>),
   PathChat(ParseWorkspaceMounts(<<"h">>, <<Mount(<<"workspace">>, <<"s">>)>>), <<"workspace", "x">>),
   PathChat(ParseWorkspaceMounts(<<>>, <<Mount(<<"h">>, <<"h", "s">>), Mount(<<"h">>, <<"h", "s">>)>>), <<"h", "x">>),
   PathChat(ParseWorkspaceMounts(<<>>, <<Mount(<<>>, <<"s">>), Mount(<<"h">>, <<"s">>)>>), <<"h">>)}
MCChats == TextChats \cup PathChats
===============================================================================
