------------------------------ MODULE Digests ------------------------------
(***************************************************************************)
(* What the protocol structures hash and sign (transaction.cpp, block.cpp, *)
(* memo.cpp): the digests of a transaction, its signatures and the keys    *)
(* that are read from them, the ids and the merkle root of blocks, and     *)
(* memos.  A hash is the term that was hashed, a signature a key and what  *)
(* it signed, a shared secret the pair of its keys.                        *)
(***************************************************************************)
EXTENDS Integers, Sequences, FiniteSets

CONSTANTS SigningKeys,    \* private keys, one of them "a" and one "b"
          ChainIds,
          BlockTrxs,      \* what the blocks hold: small numbers
          MaxBlockTrxs,   \* bound on the transactions of a block
          RefMod          \* ref_block_num is 16 bits

VARIABLES matter,    \* "transaction", "block" or "memo": which of them moves
          draft,     \* a signed_transaction that is put together
          signed,    \* history: what was signed with which key for which chain
          bodies,    \* the transactions of two blocks with the same header otherwise
          memo,      \* a memo_data
          authored   \* history: the text, the sender and the receiver of the memo

digest_vars == <<matter, draft, signed, bodies, memo, authored>>

Texts == {"", "hello"}

no_key == "none"

-----------------------------------------------------------------------------
(* Transactions.                                                           *)

fields(trx) == <<trx.ref_block_num, trx.ref_block_prefix, trx.expiration, trx.operations>>

sig_digest(trx, chain) == <<"sig", chain, fields(trx)>>

public(key) == <<"public", key>>

\* External: the key a compact signature is recovered to; a strange one if it is of something else.
recovered(sig, d) == IF sig.of = d THEN public(sig.key) ELSE <<"strange", sig, d>>

\* get_signature_keys fills signees once; a chain id given later is not looked at.
get_signature_keys(trx, chain) ==
  IF trx.signees # {} THEN trx.signees
  ELSE {recovered(trx.signatures[i], sig_digest(trx, chain)) : i \in DOMAIN trx.signatures}

duplicate_signatures(trx, chain) ==
  /\ trx.signees = {}
  /\ Cardinality(get_signature_keys(trx, chain)) < Len(trx.signatures)

\* Accounts whose owner authority is required need not sign with the active one as well.
get_required_authorities(operations) ==
  LET owner == UNION {operations[i].owner : i \in DOMAIN operations}
      active == UNION {operations[i].active : i \in DOMAIN operations}
  IN [active |-> active \ owner, owner |-> owner]

set_expiration(time) ==
  /\ draft.signatures = <<>>
  /\ draft' = [draft EXCEPT !.expiration = time]
  /\ UNCHANGED <<matter, signed, bodies, memo, authored>>

set_reference_block(id) ==
  /\ draft.signatures = <<>>
  /\ draft' = [draft EXCEPT !.ref_block_num = id.num % RefMod, !.ref_block_prefix = id.hash]
  /\ UNCHANGED <<matter, signed, bodies, memo, authored>>

\* The non-const sign appends and forgets the keys it has read.
sign(key, chain) ==
  /\ Len(draft.signatures) < 2
  /\ LET signature == [key |-> key, of |-> sig_digest(draft, chain)]
     IN draft' = [draft EXCEPT !.signatures = Append(@, signature), !.signees = {}]
  /\ signed' = Append(signed, <<key, chain>>)
  /\ UNCHANGED <<matter, bodies, memo, authored>>

\* The keys are read; a key that has signed twice throws and nothing is stored.
read_keys(chain) ==
  /\ ~duplicate_signatures(draft, chain)
  /\ draft' = [draft EXCEPT !.signees = get_signature_keys(draft, chain)]
  /\ UNCHANGED <<matter, signed, bodies, memo, authored>>

clear_signatures ==
  /\ draft' = [draft EXCEPT !.signatures = <<>>, !.signees = {}]
  /\ signed' = <<>>
  /\ UNCHANGED <<matter, bodies, memo, authored>>

-----------------------------------------------------------------------------
(* Blocks.                                                                 *)

merkle_digest(trx) == <<"leaf", trx>>

\* One level up: pairs are hashed, an odd one at the end goes up as it is.
hashed_in_pairs(ids) ==
  [k \in 1 .. ((Len(ids) + 1) \div 2) |->
     IF 2 * k <= Len(ids) THEN <<"pair", ids[2 * k - 1], ids[2 * k]>> ELSE ids[Len(ids)]]

RECURSIVE merkle_top(_)
merkle_top(ids) == IF Len(ids) = 1 THEN ids[1] ELSE merkle_top(hashed_in_pairs(ids))

calculate_merkle_root(trxs) ==
  IF trxs = <<>> THEN <<"root">>
  ELSE <<"root", merkle_top([i \in DOMAIN trxs |-> merkle_digest(trxs[i])])>>

\* The number of the block is authored over the first word of the hash of its header.
num_from_id(id) == id.num

block_id(header) == [num |-> num_from_id(header.previous) + 1, hash |-> <<"header", header>>]

genesis_id == [num |-> 0, hash |-> <<"none">>]

header_of(previous, trxs, key) ==
  LET header == [previous |-> previous, transaction_merkle_root |-> calculate_merkle_root(trxs)]
  IN [previous |-> previous, transaction_merkle_root |-> header.transaction_merkle_root,
      witness_signature |-> [key |-> key, of |-> header]]

validate_signee(header, key) ==
  recovered(header.witness_signature,
            [previous |-> header.previous,
             transaction_merkle_root |-> header.transaction_merkle_root]) = public(key)

add_to_block(i, trx) ==
  /\ Len(bodies[i]) < MaxBlockTrxs
  /\ bodies' = [bodies EXCEPT ![i] = Append(@, trx)]
  /\ UNCHANGED <<matter, draft, signed, memo, authored>>

-----------------------------------------------------------------------------
(* Memos.                                                                  *)

memo_message(checksum, text) == [checksum |-> checksum, text |-> text]

\* External: the secret two keys share, the same from both sides.
get_shared_secret(priv, pub) == {priv, pub}

\* External: aes_decrypt with another key throws or gives noise.
aes_decrypt(key, message) ==
  IF message.key = key THEN message.text ELSE memo_message(<<"noise">>, "?")

set_message(priv, pub, text, nonce) ==
  /\ memo' = IF priv # no_key /\ pub # no_key
             THEN [from |-> priv, to |-> pub, nonce |-> nonce,
                   message |-> [key |-> <<nonce, get_shared_secret(priv, pub)>>,
                                text |-> memo_message(<<"hash", text>>, text)]]
             ELSE [memo EXCEPT !.message = [key |-> <<>>, text |-> memo_message(<<"zero">>, text)]]
  /\ authored' = [text |-> text, from |-> priv, to |-> pub]
  /\ UNCHANGED <<matter, draft, signed, bodies>>

\* What a reader gets: the text, or nothing when the checksum is wrong.
get_message(priv, pub) ==
  IF memo.from = no_key THEN {memo.message.text.text}
  ELSE LET plain == aes_decrypt(<<memo.nonce, get_shared_secret(priv, pub)>>, memo.message)
       IN IF plain.checksum = <<"hash", plain.text>> THEN {plain.text} ELSE {}

new_memo == [from |-> no_key, to |-> no_key, nonce |-> 0,
             message |-> [key |-> <<>>, text |-> memo_message(<<"zero">>, "")]]

-----------------------------------------------------------------------------
DigestsInit ==
  /\ matter \in {"transaction", "block", "memo"}
  /\ draft = [ref_block_num |-> 0, ref_block_prefix |-> <<>>, expiration |-> 0,
          operations |-> <<[owner |-> {1}, active |-> {2}], [owner |-> {}, active |-> {1, 3}]>>,
          signatures |-> <<>>, signees |-> {}]
  /\ signed = <<>>
  /\ bodies = <<<<>>, <<>>>>
  /\ memo = new_memo
  /\ authored = [text |-> "", from |-> no_key, to |-> no_key]

DigestsNext ==
  \/ /\ matter = "transaction"
     /\ \/ \E time \in 0 .. 1 : set_expiration(time)
        \/ \E n \in {1, RefMod} : set_reference_block([num |-> n, hash |-> <<"prefix", n>>])
        \/ \E key \in SigningKeys, chain \in ChainIds : sign(key, chain)
        \/ \E chain \in ChainIds : read_keys(chain)
        \/ clear_signatures
  \/ /\ matter = "block"
     /\ \E i \in 1 .. 2, trx \in BlockTrxs : add_to_block(i, trx)
  \/ /\ matter = "memo"
     /\ \E priv, pub \in SigningKeys \cup {no_key}, text \in Texts, nonce \in 1 .. 2 :
          set_message(priv, pub, text, nonce)

-----------------------------------------------------------------------------
ours == {public(key) : key \in SigningKeys}

keys_for(chain) == {public(signed[i][1]) : i \in {j \in DOMAIN signed : signed[j][2] = chain}}

first_of(i) == header_of(genesis_id, bodies[i], "a")

\* As long as no keys were read, those of a chain are the keys that signed for it, and never one
\* that signed for another only; keys that were read are those of one chain; two blocks have one id
\* only if they hold the same transactions in the same order, and the id has the number; a block is
\* signed by its signer alone; a memo is read by its two ends and by nobody else; and each
\* required authority is asked for once.
DigestsExact ==
  /\ draft.signees = {} => \A chain \in ChainIds :
                         get_signature_keys(draft, chain) \cap ours = keys_for(chain)
  /\ draft.signees # {} => \E chain \in ChainIds : draft.signees \cap ours = keys_for(chain)
  /\ bodies[1] = bodies[2] <=> block_id(first_of(1)) = block_id(first_of(2))
  /\ num_from_id(block_id(header_of(block_id(first_of(1)), bodies[2], "b"))) = 2
  /\ \A key \in SigningKeys : validate_signee(first_of(1), key) <=> key = "a"
  /\ memo.from # no_key /\ authored.from # no_key /\ authored.to # no_key =>
       /\ get_message(memo.from, memo.to) = {authored.text}
       /\ get_message(memo.to, memo.from) = {authored.text}
       /\ \A key \in SigningKeys \ {memo.from, memo.to} : get_message(key, memo.to) = {}
  /\ LET r == get_required_authorities(draft.operations)
     IN /\ r.active \cap r.owner = {}
        /\ \A i \in DOMAIN draft.operations :
             /\ draft.operations[i].owner \subseteq r.owner
             /\ draft.operations[i].active \subseteq r.active \cup r.owner
=============================================================================
