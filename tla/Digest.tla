------------------------------- MODULE Digest -------------------------------
(***************************************************************************)
(* How the notifiers cut a digest into messages: pack of                   *)
(* internal/notify/render.go, and what telegramTexts, discordEmbedsFor,    *)
(* discordMessages and slackMessages make of its chunks.                   *)
(*                                                                         *)
(* A change is rendered to a block [target, size]; what is in it does not  *)
(* matter.  A chunk is a sequence of blocks, each with or without the      *)
(* heading that names its target.                                          *)
(***************************************************************************)
EXTENDS Naturals, Sequences, SequencesExt, FiniteSets

CONSTANTS
    Targets,
    Heading,    \* the size of a heading
    Frame,      \* the size of what surrounds a chunk: title, part label, footer
    Limit,      \* telegramLimit
    Section,    \* slackSection, discordDescription: the budget of a chunk
    Sections,   \* slackBlocks, discordEmbeds: chunks per message
    Embedded    \* discordMessage: the size of a message's embeds

NoTarget == "none"

ASSUME DigestAssumption ==
    /\ NoTarget \notin Targets
    /\ {Heading, Frame, Limit, Section, Embedded} \subseteq Nat
    /\ Frame < Limit /\ Sections \in Nat \ {0}

Block == [target : Targets, size : Nat]

Piece(block, headed) == [block |-> block, headed |-> headed]

PieceSize(piece) == piece.block.size + (IF piece.headed THEN Heading ELSE 0)

Total(sizes) ==
    LET Upto[i \in 0..Len(sizes)] == IF i = 0 THEN 0 ELSE Upto[i - 1] + sizes[i]
    IN  Upto[Len(sizes)]

\* size(b.String())
Size(chunk) == Total([i \in DOMAIN chunk |-> PieceSize(chunk[i])])

\* One turn of pack's loop; the chunk under way is the last of chunks.
\* Wrong: a target that goes on in the next chunk is not named again.
PackNextUnnamed(chunks, block, named, budget) ==
    LET piece == Piece(block, block.target # named)
        last == Last(chunks)
    IN  IF last # <<>> /\ Size(last) + PieceSize(piece) > budget
        THEN Append(chunks, <<piece>>)
        ELSE [chunks EXCEPT ![Len(chunks)] = Append(last, piece)]

PackNext(chunks, block, named, budget) ==
    LET piece == Piece(block, block.target # named)
        last == Last(chunks)
    IN  IF last # <<>> /\ Size(last) + PieceSize(piece) > budget
        THEN Append(chunks, <<Piece(block, TRUE)>>)
        ELSE [chunks EXCEPT ![Len(chunks)] = Append(last, piece)]

\* The group of pack: the target of the block before.
Named(digest, i) == IF i = 1 THEN NoTarget ELSE digest[i - 1].target

Pack(digest, budget) ==
    LET Upto[i \in 0..Len(digest)] ==
          IF i = 0 THEN <<(<<>>)>> ELSE PackNext(Upto[i - 1], digest[i], Named(digest, i), budget)
    IN  Upto[Len(digest)]

EmbedSize(chunk) == Size(chunk) + Frame

EmbedsSize(message) == Total([i \in DOMAIN message |-> EmbedSize(message[i])])

\* One turn of discordMessages' loop; the message under way is the last.
GroupNext(messages, chunk) ==
    LET last == Last(messages)
    IN  IF last # <<>> /\ (Len(last) = Sections \/ EmbedsSize(last) + EmbedSize(chunk) > Embedded)
        THEN Append(messages, <<chunk>>)
        ELSE [messages EXCEPT ![Len(messages)] = Append(last, chunk)]

\* telegramTexts: one chunk a message.
TelegramMessages(chunks) == [i \in DOMAIN chunks |-> <<chunks[i]>>]

\* discordMessages
DiscordMessages(chunks) ==
    LET Upto[i \in 0..Len(chunks)] ==
          IF i = 0 THEN <<(<<>>)>> ELSE GroupNext(Upto[i - 1], chunks[i])
    IN  Upto[Len(chunks)]

\* slackMessages: Sections at a time.
SlackMessages(chunks) ==
    [i \in 1..((Len(chunks) + Sections - 1) \div Sections) |->
        SubSeq(chunks, (i - 1) * Sections + 1,
               IF i * Sections < Len(chunks) THEN i * Sections ELSE Len(chunks))]

Budget(via) == IF via = "telegram" THEN Limit - Frame ELSE Section

\* The messages of a digest, each a sequence of chunks.
Rendered(via, digest) ==
    LET chunks == Pack(digest, Budget(via))
    IN  CASE via = "telegram" -> TelegramMessages(chunks)
          [] via = "discord" -> DiscordMessages(chunks)
          [] via = "slack" -> SlackMessages(chunks)

-----------------------------------------------------------------------------
\* The chunk that holds these blocks, as it should be: every target is named
\* where its blocks begin.
Chunk(blocks) ==
    [i \in DOMAIN blocks |-> Piece(blocks[i], i = 1 \/ blocks[i].target # blocks[i - 1].target)]

Blocks(chunk) == [i \in DOMAIN chunk |-> chunk[i].block]

\* A block that is over the budget by itself cannot be helped.
Fits(blocks, budget) == Len(blocks) = 1 \/ Size(Chunk(blocks)) <= budget

\* Where the chunk begins that ends there, when the digest is cut after each of
\* the places in cuts.
From(cuts, end) ==
    CHOOSE b \in {c + 1 : c \in cuts \cup {0}} : b <= end /\ \A c \in cuts : c < end => c < b

AllFit(digest, cuts, budget) ==
    \A end \in cuts \cup {Len(digest)} : Fits(SubSeq(digest, From(cuts, end), end), budget)

\* The number of chunks then, if everything fits; more than any, if not.
ChunksOf(digest, cuts, budget) ==
    IF AllFit(digest, cuts, budget) THEN Cardinality(cuts) + 1 ELSE Len(digest) + 1

(***************************************************************************)
(* The messages a digest is cut into tell all of it, in order; every chunk *)
(* names the target of each change in it, and is within the limit of the   *)
(* service; there are as few chunks as there can be ("joins blocks into as *)
(* few chunks of at most budget as possible, repeating a group's heading   *)
(* when the group continues in the next chunk", pack); and no message has  *)
(* more chunks, or more in them, than the service takes (discordMessages,  *)
(* slackMessages).                                                         *)
(***************************************************************************)
IsWhole(via, digest) ==
    LET messages == Rendered(via, digest)
        chunks == FlattenSeq(messages)
    IN  /\ FlattenSeq([i \in DOMAIN chunks |-> Blocks(chunks[i])]) = digest
        /\ \A i \in DOMAIN chunks :
              chunks[i] = Chunk(Blocks(chunks[i])) /\ Fits(Blocks(chunks[i]), Budget(via))
        /\ \A cuts \in SUBSET (1..(Len(digest) - 1)) :
              Len(chunks) <= ChunksOf(digest, cuts, Budget(via))
        /\ \A i \in DOMAIN messages :
              /\ Len(messages[i]) \in 1..Sections
              /\ via = "discord" /\ Len(messages[i]) > 1 => EmbedsSize(messages[i]) <= Embedded
=============================================================================
