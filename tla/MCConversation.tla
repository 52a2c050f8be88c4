--------------------------- MODULE MCConversation ---------------------------
(* Conversation over short streams, after one of two prompts. *)
EXTENDS Conversation

\* Two calls; a sloppy upstream may go below zero, or begin at one.
CallIndexes == {-1, 0, 1}

\* Streams of an upstream that follows rules are looked at further than others.
PieceBounds == [u \in Upstreams |-> IF u = "sloppy" THEN 3 ELSE 5]

Tool(type, form, name) == [type |-> type, form |-> form, name |-> name]

\* A text with an image, under instructions; and developer and user messages
\* around an item of a type the bridge does not know.
ShortPrompts == {
    [instructions |-> <<"x">>,
     input |-> <<MessageItem("user", <<[type |-> "input_text", text |-> <<"x">>],
                                       [type |-> "input_image", text |-> <<>>]>>)>>,
     tools |-> <<Tool("function", "flat", "f"), Tool("web_search", "flat", "w")>>],
    [instructions |-> <<>>,
     input |-> <<MessageItem("developer", <<[type |-> "input_text", text |-> <<"x">>]>>),
                 [type |-> "reasoning"],
                 MessageItem("user", <<[type |-> "text", text |-> <<"x">>]>>)>>,
     tools |-> <<Tool("function", "wrapped", "f"), Tool("function", "flat", "g")>>]}
=============================================================================
