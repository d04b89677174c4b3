------------------------- MODULE EncryptedBlockStore -------------------------
(***************************************************************************)
(* The encrypted block store (components/service/block_storage/            *)
(* block_store/encrypted/encrypted_block_store.c) over a RAM device, which *)
(* holds the ciphertext of whole blocks.  The keys are derived from the    *)
(* same root key at every start.  A byte of ciphertext is the sector       *)
(* number that its initialization vector is made of, the block it is from  *)
(* and its place in it.  What is not the ciphertext of a block decrypts to *)
(* Junk.                                                                   *)
(***************************************************************************)
EXTENDS BlockDevice

CONSTANT Junk

encrypted_block_store_init == [ram_block_store_init EXCEPT !.kind = "encrypted"]

encrypt_block(lba, plaintext) == [i \in 1 .. BlockSize |-> [iv |-> lba, text |-> plaintext, at |-> i]]

decrypt_block(lba, ciphertext) ==
    IF ciphertext[1] # Erased /\ ciphertext = encrypt_block(lba, ciphertext[1].text) THEN ciphertext[1].text
    ELSE BlockOf(Junk)

\* A whole block, decrypted: [store, status, out].  Any of the cipher operations may fail.
internal_encrypted_block_store_read(dev, client, handle, lba, offset) ==
    IF offset >= BlockSize THEN Refuse(dev, "INVALID_ARGUMENT")
    ELSE UNION {IF a.status # "SUCCESS" THEN Refuse(dev, a.status)
                ELSE IF Len(a.out) # BlockSize THEN Refuse(dev, "INSUFFICIENT_DATA")
                ELSE Refuse(dev, "GENERIC_ERROR") \cup StoreAnswer(dev, "SUCCESS", decrypt_block(lba, a.out))
                    : a \in ram_block_store_read(dev, client, handle, lba, 0, BlockSize)}

encrypted_block_store_read(dev, client, handle, lba, offset, buffer_size) ==
    {IF a.status = "SUCCESS" THEN [a EXCEPT !.out = BytesOf(a.out, offset, Least(buffer_size, BlockSize - offset))] ELSE a
        : a \in internal_encrypted_block_store_read(dev, client, handle, lba, offset)}

encrypted_block_store_write(dev, client, handle, lba, offset, data) ==
    LET Written(text) ==
            Refuse(dev, "GENERIC_ERROR")
              \cup {IF w.status = "SUCCESS" /\ w.out # BlockSize THEN [w EXCEPT !.status = "INSUFFICIENT_DATA", !.out = 0]
                    ELSE IF w.status = "SUCCESS" THEN [w EXCEPT !.out = Least(Len(data), BlockSize - offset)] ELSE w
                        : w \in ram_block_store_write(dev, client, handle, lba, 0, encrypt_block(lba, text))}
    IN  IF offset >= BlockSize THEN Refuse(dev, "INVALID_ARGUMENT")
        ELSE UNION {IF a.status # "SUCCESS" THEN {a} ELSE Written(Overwritten(a.out, offset, data))
                        : a \in internal_encrypted_block_store_read(dev, client, handle, lba, 0)}

encrypted_block_store_erase(dev, client, handle, begin_lba, num_blocks) ==
    ram_block_store_erase(dev, client, handle, begin_lba, num_blocks)
==============================================================================
