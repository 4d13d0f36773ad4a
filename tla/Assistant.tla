----------------------------- MODULE Assistant -----------------------------
(***************************************************************************)
(* The assistant (server_ai.go, ai/): its provider's settings, the list of *)
(* a provider's models, and a chat, which takes the settings once and then *)
(* asks the provider and runs the tools it calls, round after round. What  *)
(* a user can do meanwhile is save other settings: with the assistant's    *)
(* form, or with a whole config that has an "ai" block (handleConfig).     *)
(***************************************************************************)
EXTENDS Naturals, FiniteSets, Sequences, SequencesExt

CONSTANTS
    Hosted,         \* endpoints of the presets: they need a key
    Own,            \* endpoints of the presets "custom" and "local"
    Lookups,        \* calls of tools that read, by name and arguments
    Chats,
    MaxToolRounds,
    MaxCalls, MaxAiSaves   \* bounds: calls in a reply, saves of the settings

NoEndpoint == "no endpoint"   \* ResolveBaseURL fails
NoKey == "no key"             \* a key is named by the endpoint it was typed for
Camera == "view_printer_camera"
Nameless == "nameless"        \* a call without an id or a name
NoAI == [on |-> FALSE, to |-> NoEndpoint, key |-> NoKey, camera |-> FALSE]
NoChat == [at |-> "none"]

VARIABLES
    ai,         \* config.AI
    chat,       \* RunChatLoop's locals, by chat
    keySent,    \* what was sent to a provider: [key, to]
    moved,      \* the [key, to] that PostConfig has put together, observed
    aiSaves

assistantVars == <<ai, chat, keySent, moved, aiSaves>>

Endpoints == Hosted \cup Own \cup {NoEndpoint}

AssistantInit ==
    /\ ai \in {s \in [on : BOOLEAN, to : Endpoints, key : Endpoints \cup {NoKey}, camera : BOOLEAN] :
                 s.key \in {s.to, NoKey}}
    /\ chat = [c \in Chats |-> NoChat] /\ keySent = {} /\ moved = {} /\ aiSaves = 0

-----------------------------------------------------------------------------
(* Settings.                                                                 *)

SameEndpoint(a, b) == a = b

(* The settings are replaced; allowed follows them in every chat.            *)
Replace(on, to, key, camera) ==
    /\ aiSaves < MaxAiSaves /\ aiSaves' = aiSaves + 1
    /\ ai' = [on |-> on, to |-> to, key |-> key, camera |-> camera]
    /\ chat' = [c \in Chats |->
                  IF chat[c] = NoChat THEN NoChat
                  ELSE [chat[c] EXCEPT !.allowed = @ \/ camera]]
    /\ UNCHANGED keySent

(* handleAISettings: a form without a key keeps the stored one, for the      *)
(* endpoint it was saved for.                                                *)
SaveAI ==
    /\ \E on, camera \in BOOLEAN, to \in Endpoints :
         \E key \in {to, NoKey, IF SameEndpoint(ai.to, to) THEN ai.key ELSE NoKey} :
           Replace(on, to, key, camera)
    /\ UNCHANGED moved

AtHome(s, known) == s.key \in {s.to, NoKey} \/ [key |-> s.key, to |-> s.to] \in known

(* handleConfig with a body that has an "ai" block: applyStoredSecrets keeps *)
(* the stored key for a blank one, whatever the endpoint.                    *)
PostConfig ==
    /\ \E on, camera \in BOOLEAN, to \in Endpoints : \E key \in {to, ai.key} : Replace(on, to, key, camera)
    /\ moved' = IF AtHome(ai', {}) THEN moved ELSE moved \cup {[key |-> ai'.key, to |-> ai'.to]}

(* A request carries the key, if there is one.                               *)
Sends(key, to) == keySent' = keySent \cup {[key |-> key, to |-> to]}

(* handleAIModels: of settings that need not be saved.                       *)
ListModels ==
    \E to \in Hosted \cup Own :
      \E key \in {to, IF SameEndpoint(ai.to, to) THEN ai.key ELSE NoKey} :
        /\ key = NoKey => to \in Own
        /\ Sends(key, to)
        /\ UNCHANGED <<ai, chat, moved, aiSaves>>

Configured == ai.on /\ \/ ai.to \in Own
                       \/ ai.to \in Hosted /\ ai.key # NoKey

-----------------------------------------------------------------------------
(* A chat: at is where RunChatLoop stands, said what it has added to the     *)
(* messages, left the calls of the reply that it has still to run, frames    *)
(* the images it will post after them; allowed is for the property.          *)

StartChat(c) ==
    /\ chat[c] = NoChat /\ Configured
    /\ chat' = [chat EXCEPT ![c] =
         [at |-> "asking", to |-> ai.to, key |-> ai.key, round |-> 0, said |-> <<>>,
          left |-> <<>>, frames |-> 0, allowed |-> ai.camera]]
    /\ Sends(ai.key, ai.to)
    /\ UNCHANGED <<ai, moved, aiSaves>>

(* The provider answers with text or an error, or there is no more time.     *)
ChatEnds(c) ==
    /\ chat[c].at = "asking" /\ chat' = [chat EXCEPT ![c].at = "over"]
    /\ UNCHANGED <<ai, keySent, moved, aiSaves>>

(* ParseReply.                                                               *)
Named(calls) == SelectSeq(calls, LAMBDA call : call # Nameless)

(* The provider's own message is replayed whole, and the calls in it that    *)
(* have an id and a name are run, offered or not, in the last round too.     *)
ReplyCalls(c) ==
    /\ chat[c].at = "asking"
    /\ \E calls \in SeqOf(Lookups \cup {Camera, Nameless}, MaxCalls),
          named \in SeqOf(Lookups \cup {Camera}, MaxCalls) :
         /\ named = Named(calls) /\ named # <<>>
         /\ chat' = [chat EXCEPT ![c].at = "running", ![c].left = named,
                                 ![c].said = Append(@, [is |-> "calls", of |-> calls])]
    /\ UNCHANGED <<ai, keySent, moved, aiSaves>>

(* The result of the first call that is left.                                *)
Answered(c, was) ==
    [chat[c] EXCEPT !.at = "running", !.left = Tail(@),
                    !.said = Append(@, [is |-> "result", of |-> Head(chat[c].left), was |-> was]),
                    !.frames = IF was = "image" THEN @ + 1 ELSE @]

Called(c, call) ==
    \E i \in DOMAIN chat[c].said : chat[c].said[i].is = "result" /\ chat[c].said[i].of = call

(* executeAITool: the camera is refused unless the settings allow it now;    *)
(* another tool's answer, or its error, is the result.                       *)
Execute(c, call) ==
    IF call # Camera THEN Answered(c, "data")
    ELSE IF ai.camera THEN [chat[c] EXCEPT !.at = "looking"]
    ELSE Answered(c, "refused")

(* One call; a repeat is told that it is one.                                *)
RunCall(c) ==
    /\ chat[c].at = "running" /\ chat[c].left # <<>>
    /\ LET call == Head(chat[c].left) IN
         chat' = [chat EXCEPT ![c] = IF Called(c, call) THEN Answered(c, "repeated")
                                     ELSE Execute(c, call)]
    /\ UNCHANGED <<ai, keySent, moved, aiSaves>>

(* toolCamera: the frame, or why there is none.                              *)
FrameComes(c) ==
    /\ chat[c].at = "looking"
    /\ \E was \in {"image", "no image"} : chat' = [chat EXCEPT ![c] = Answered(c, was)]
    /\ UNCHANGED <<ai, keySent, moved, aiSaves>>

Pictures(n) == [i \in 1..n |-> [is |-> "picture"]]

(* The next round asks with all results; the last one ends in ErrToolLoop.   *)
NextRound(c) ==
    /\ chat[c].at = "running" /\ chat[c].left = <<>>
    /\ LET more == chat[c].round < MaxToolRounds IN
         /\ chat' = [chat EXCEPT ![c].at = IF more THEN "asking" ELSE "over",
                                 ![c].round = IF more THEN @ + 1 ELSE @,
                                 ![c].said = @ \o Pictures(chat[c].frames),
                                 ![c].frames = 0]
         /\ IF more THEN Sends(chat[c].key, chat[c].to) ELSE UNCHANGED keySent
    /\ UNCHANGED <<ai, moved, aiSaves>>

AssistantNext ==
    \/ SaveAI \/ PostConfig \/ ListModels
    \/ \E c \in Chats :
         \/ StartChat(c) \/ ChatEnds(c) \/ ReplyCalls(c)
         \/ RunCall(c) \/ FrameComes(c) \/ NextRound(c)

-----------------------------------------------------------------------------
Asked == {c \in Chats : chat[c].at = "asking"}

(* "The stored key is only ever sent to the endpoint it was saved for"       *)
(* (server_ai.go:62-63), whatever is saved between the rounds of a chat or   *)
(* listed without being saved; with one exception. The settings are not      *)
(* "only ever written through /api/ai/settings" (server.go:1236-1237): where *)
(* a body of /api/config put the stored key beside another endpoint, it goes *)
(* there, and nowhere else. The dashboard sends no such body.                *)
KeysStayHome == \A s \in keySent : AtHome(s, moved)

(* When the provider is asked again, every named call it made is followed by *)
(* its result, in their order and before any picture.                        *)
CallsAreAnswered ==
    \A c \in Asked : \A i \in DOMAIN chat[c].said :
      LET said == chat[c].said
          calls == Named(said[i].of)
      IN  said[i].is = "calls" =>
            /\ i + Len(calls) <= Len(said)
            /\ \A j \in 1..Len(calls) :
                 said[i + j].is = "result" /\ said[i + j].of = calls[j]

(* Within one reply, no tool is run twice with the same arguments, and each  *)
(* frame that was taken is posted once.                                      *)
CallsRunOnce ==
    \A c \in Asked :
      LET said == chat[c].said
          Ran(i) == said[i].is = "result" /\ said[i].was # "repeated"
      IN  /\ \A i, j \in DOMAIN said : Ran(i) /\ Ran(j) /\ said[i].of = said[j].of => i = j
          /\ Cardinality({i \in DOMAIN said : said[i].is = "picture"})
               = Cardinality({i \in DOMAIN said : Ran(i) /\ said[i].was = "image"})

(* No picture is posted in a chat during which the settings never allowed    *)
(* it, even if the provider calls a tool it was not offered.                 *)
PicturesWereAllowed ==
    \A c \in Asked : ~chat[c].allowed =>
      \A i \in DOMAIN chat[c].said : chat[c].said[i].is # "picture"

AssistantIsRight == KeysStayHome /\ CallsAreAnswered /\ CallsRunOnce /\ PicturesWereAllowed
=============================================================================
