----------------------------- MODULE BlockChain -----------------------------
(***************************************************************************)
(* The toy bitcoin of src/src/bitcoin: the CLI's createBlockChain, send   *)
(* and newWallet commands over the chain kept in bolt and the wallets kept *)
(* in wallet.dat.  A command runs to its end before *)
(* the next one starts, so each is one step.  Proof of work, the Merkle    *)
(* root and the bolt encoding do not decide which outputs a Send spends,   *)
(* and are left out; hashes are symbolic and signatures omitted, as Verify *)
(* fails on a trimmed copy whatever they hold.  Amounts are              *)
(* float64 multiples of 0.5 BTC, exact in binary, and are counted here in  *)
(* units of 0.5 BTC.                                                       *)
(***************************************************************************)
EXTENDS Integers, Sequences, SequencesExt, FiniteSets

CONSTANTS
  Addrs,        \* the addresses of the key pairs NewWallet may generate
  BadAddrs,     \* typed addresses whose checksum does not match
  Datas,        \* --data strings a miner may pass
  GenesisData,  \* the data of the genesis coinbase
  Amounts,      \* --amount values
  Reward,       \* the coinbase reward, 12.5 BTC
  MaxBlocks     \* blocks the chain may reach

VARIABLES
  chain,    \* the blocks from genesis to c.tail; <<>> before createBlockChain
  wallets,  \* the addresses in wallet.dat's WalletsMap
  lastSend  \* the last send: whether it was funded, and how it ended

vars == <<chain, wallets, lastSend>>

(* HashPubKey is ripemd160(sha256(pubKey)), 20 bytes; sha256.Sum256 gives *)
(* 32 bytes.  The two digests of a key never compare equal.  A wallet's   *)
(* public key is named by its address.                                     *)
HashPubKey(a) == <<"ripemd160", a>>
Sha256(k) == <<"sha256", k>>

(* A transaction is [id, ins, outs].        An input is [txid, idx, key]:  *)
(* the transaction and 0-based output it spends, and the payer's public   *)
(* key; an output is [value, pkh].  SetTxID hashes the transaction before *)
(* it is signed, so the id is a function of ins and outs.                  *)
Txs == UNION {ToSet(b) : b \in ToSet(chain)}

(* SetTxID: equal contents hash equal; a new content gets a new id.        *)
NewId(ins, outs, txs) ==
  IF \E t \in txs : t.ins = ins /\ t.outs = outs
  THEN (CHOOSE t \in txs : t.ins = ins /\ t.outs = outs).id
  ELSE Cardinality({t.id : t \in txs}) + 1

(* IsValidAddress: the checksum recomputed from the decoded payload equals *)
(* the address's last 4 bytes.  A bad address still decodes to a payload, *)
(* here the hash of a key nobody holds.                                    *)
IsValidAddress(a) == a \notin BadAddrs

(* NewTXOutput: the value, locked by UnLock to the public key hash that   *)
(* the base58 address carries.                                             *)
NewTXOutput(value, addr) == [value |-> value, pkh |-> HashPubKey(addr)]

IsCoinbase(tx) == Len(tx.ins) = 1 /\ tx.ins[1].txid = 0 /\ tx.ins[1].idx = -1

(* NewCoinbaseTX: one input naming no output, carrying the data, and the  *)
(* reward to the miner.                                                    *)
NewCoinbaseTX(miner, data, txs) ==
  LET ins == <<[txid |-> 0, idx |-> -1, key |-> data]>>
      outs == <<NewTXOutput(Reward, miner)>>
  IN [id |-> NewId(ins, outs, txs), ins |-> ins, outs |-> outs]

(* The transactions as the Iterator yields them, from c.tail back.         *)
Newest == FlattenSeq(Reverse(chain))

(* FindUTXOTransaction's loop: a transaction is listed once for each of    *)
(* its outputs to pkh that no input seen so far spends; a later input is  *)
(* counted as spending when sha256 of its key equals pkh.                  *)
RECURSIVE Scan(_, _, _)
Scan(txs, pkh, spent) ==
  IF txs = <<>> THEN <<>>
  ELSE LET tx == Head(txs)
           hits == {j \in DOMAIN tx.outs :
                      <<tx.id, j - 1>> \notin spent /\ tx.outs[j].pkh = pkh}
           mine == {in \in ToSet(tx.ins) : Sha256(in.key) = pkh}
           spent2 == IF IsCoinbase(tx) THEN spent
                     ELSE spent \cup {<<in.txid, in.idx>> : in \in mine}
       IN [k \in 1..Cardinality(hits) |-> tx] \o Scan(Tail(txs), pkh, spent2)

FindUTXOTransaction(pkh) == Scan(Newest, pkh, {})

(* The outputs to pkh of every listed transaction, in order, as FindUTXOs *)
(* and FindNeedUTXOs walk them.                                            *)
Candidates(pkh) ==
  LET txs == FindUTXOTransaction(pkh)
      outs(t) == SelectSeq([j \in DOMAIN t.outs |->
                             [txid |-> t.id, idx |-> j - 1,
                              value |-> t.outs[j].value, pkh |-> t.outs[j].pkh]],
                           LAMBDA o : o.pkh = pkh)
  IN FlattenSeq([k \in DOMAIN txs |-> outs(txs[k])])

(* GetBalance: the sum of FindUTXOs.                                        *)
Balance(a) == FoldSeq(LAMBDA o, acc : o.value + acc, 0, Candidates(HashPubKey(a)))

(* FindNeedUTXOs: take outputs while the sum is below the amount.         *)
RECURSIVE Need(_, _, _, _)
Need(cands, amount, calc, picked) ==
  IF cands = <<>> \/ calc >= amount THEN <<picked, calc>>
  ELSE Need(Tail(cands), amount, calc + Head(cands).value,
            Append(picked, Head(cands)))

(* NewTransaction's inputs: the map from txid to indices is ranged over in *)
(* any order; each id's indices keep the order they were picked in.       *)
InputOrders(picked, from) ==
  LET ids == {o.txid : o \in ToSet(picked)}
      insOf(id) == [m \in DOMAIN SelectSeq(picked, LAMBDA o : o.txid = id) |->
                     [txid |-> id,
                      idx |-> SelectSeq(picked, LAMBDA o : o.txid = id)[m].idx,
                      key |-> from]]
  IN {FlattenSeq([k \in DOMAIN p |-> insOf(p[k])]) : p \in SetToSeqs(ids)}

(* FindTransactionByTXid: the Iterator hands out the genesis block with   *)
(* its end-of-chain error, and the loop breaks on that error before it    *)
(* scans the block, so only the blocks after genesis are searched.         *)
FindTransactionByTXid(id) ==
  \E k \in 2..Len(chain) : \E t \in ToSet(chain[k]) : t.id = id

(* FindPrevTransaction: TRUE when every input's transaction is found;      *)
(* otherwise log.Panic ends the command.                                   *)
FindPrevTransaction(ins) == \A i \in DOMAIN ins : FindTransactionByTXid(ins[i].txid)

(* NewTransaction: none when wallet.dat has no wallet for the payer, or    *)
(* the balance found is too small.  Else the transactions it may build     *)
(* from the payer's UTXOs (one per order of the inputs), the amount to the *)
(* payee and any change back to the payer; FindPrevTransaction, before     *)
(* Sign, panics when an input's transaction is not found.                  *)
NewTransaction(from, to, amount, txs) ==
  LET need == Need(Candidates(HashPubKey(from)), amount, 0, <<>>)
      change == need[2] - amount
      outs == <<NewTXOutput(amount, to)>>
                \o (IF change > 0 THEN <<NewTXOutput(change, from)>>
                    ELSE <<>>)
  IN IF from \notin wallets \/ need[2] < amount THEN {}
     ELSE {[tx |-> [id |-> NewId(ins, outs, txs), ins |-> ins, outs |-> outs],
            panics |-> ~FindPrevTransaction(ins)] : ins \in InputOrders(need[1], from)}

(* Verify ranges over TrimmedCopy's inputs, whose Signature and PubKey are *)
(* nil: r = s = 0, and ecdsa.Verify rejects.  Only a coinbase, or a        *)
(* transaction without inputs, passes.                                     *)
Verify(tx) == IsCoinbase(tx) \/ tx.ins = <<>>

(* AddBlock: each transaction in order has its previous transactions      *)
(* looked up (a miss panics) and is verified (a failure drops the block);  *)
(* otherwise the block is stored and becomes c.tail.  A coinbase's input   *)
(* names the empty id, which is never found.                               *)
AddBlockOutcome(txs) ==
  LET bad == {i \in DOMAIN txs : ~FindPrevTransaction(txs[i].ins) \/ ~Verify(txs[i])}
  IN CASE bad = {} -> "block"
       [] ~FindPrevTransaction(txs[Min(bad)].ins) -> "panic"
       [] OTHER -> "invalid"

AddBlock(txs) ==
  chain' = IF AddBlockOutcome(txs) = "block" THEN Append(chain, txs) ELSE chain

-----------------------------------------------------------------------------

(* No blockchain.db and no wallet.dat yet.                                  *)
Init ==
  /\ chain = <<>> /\ wallets = {}
  /\ lastSend = [funded |-> FALSE, outcome |-> "none"]

(* createBlockChain --miner MINER, when no chain exists: the genesis block *)
(* holds one coinbase.  The miner's address is not validated.              *)
CreateBlockChain(miner) ==
  /\ chain = <<>>
  /\ chain' = <<<<NewCoinbaseTX(miner, GenesisData, {})>>>>
  /\ UNCHANGED <<wallets, lastSend>>

(* newWallet: NewWallets loads wallet.dat, or saves an empty one; AddWallet *)
(* generates a key pair, whose address is new, and saves the file.         *)
NewWallet(a) ==
  /\ a \notin wallets
  /\ wallets' = wallets \cup {a}
  /\ UNCHANGED <<chain, lastSend>>

(* send: the three addresses are validated, then a coinbase for the miner, *)
(* NewTransaction (a nil transaction ends the command with no block), and *)
(* AddBlock.  A panic ends the process before anything is stored.  A send  *)
(* is funded when its addresses are valid and its payer has a wallet and   *)
(* the amount.                                                             *)
Send(from, to, amount, miner, data) ==
  LET cb == NewCoinbaseTX(miner, data, Txs)
      valid == IsValidAddress(from) /\ IsValidAddress(to) /\ IsValidAddress(miner)
      funded == /\ valid /\ from \in wallets
                /\ Need(Candidates(HashPubKey(from)), amount, 0, <<>>)[2] >= amount
      Ends(o) == lastSend' = [funded |-> funded, outcome |-> o]
      built == NewTransaction(from, to, amount, Txs \cup {cb})
  IN /\ chain # <<>> /\ Len(chain) < MaxBlocks
     /\ UNCHANGED wallets
     /\ IF ~valid \/ built = {}
        THEN chain' = chain /\ Ends(IF valid THEN "nil" ELSE "invalid")
        ELSE \E b \in built :
               IF b.panics
               THEN chain' = chain /\ Ends("panic")
               ELSE AddBlock(<<cb, b.tx>>) /\ Ends(AddBlockOutcome(<<cb, b.tx>>))

Typed == Addrs \cup BadAddrs

Next ==
  \/ \E a \in Typed : CreateBlockChain(a)
  \/ \E a \in Addrs : NewWallet(a)
  \/ \E from, to, miner \in Typed, amount \in Amounts, data \in Datas :
       Send(from, to, amount, miner, data)

Spec == Init /\ [][Next]_vars

-----------------------------------------------------------------------------

(* A send whose addresses are valid, and whose payer has a wallet holding  *)
(* the amount, adds a block to the chain, as the comments of CLI.Send      *)
(* ("transfer") and AddBlock ("add a new block to the chain") say.         *)
SendAddsBlock == lastSend.funded => lastSend.outcome = "block"

=============================================================================
